---------------------------- MODULE Spec2Model ----------------------------
(***************************************************************************)
(* Three RISC-V assemblers of the repository, modelled as state machines:  *)
(*   assembler.py       main()                                            *)
(*   vidhush_bhaiya.py  class Assembler                                    *)
(*   final_code.py      class RiscVAssembler                               *)
(* Text is a sequence of one-character strings, so that strip, split,      *)
(* startswith, replace, re.match and int() are computed character by       *)
(* character as Python computes them.  A machine word is the same kind of  *)
(* sequence over "0" and "1", most significant bit first.                  *)
(***************************************************************************)
EXTENDS Integers, Sequences, FiniteSets, TLC

VARIABLES
  lines,                \* the lines of the input file, as read
  \* assembler.py, main
  pc,                   \* "pass1", "pass2", "done", "failed" ("idle": not running)
  idx,                  \* number of source lines pass 1 has consumed
  labels,               \* label table, name -> address
  instructions,         \* records [text, line_num, addr]
  current_address,      \* address counter of pass 1
  ip,                   \* number of records pass 2 has consumed
  binary_instructions,  \* words encoded so far
  output,               \* lines written to the output file
  err,                  \* the error the run ended with, "none" otherwise
  \* vidhush_bhaiya.py, Assembler
  v_pc,                 \* "scan", "assemble", "write", "done", "failed" ("idle")
  v_lines,              \* self.lines
  v_idx,                \* number of self.lines the constructor has consumed
  v_labels,             \* self.labels
  v_instructions,       \* self.instructions
  v_current_address,    \* current_address of the constructor
  asm1,                 \* self.asm1: pairs <<opcode, args>>
  v_ip,                 \* number of instructions assemble() has consumed
  machine_code,         \* self.machine_code
  v_output,             \* lines written to the output file
  v_err,                \* the error the run ended with, "none" otherwise
  \* final_code.py, RiscVAssembler
  f_pc,                 \* "parse", "run", "done", "failed" ("idle")
  source_lines,         \* self.source_lines
  f_idx,                \* number of source_lines _parse_source_lines has consumed
  label_table,          \* self.label_table
  parsed_insts,         \* self.parsed_insts: pairs <<line number, text>>
  f_addr,               \* addr of _parse_source_lines
  f_ip,                 \* number of instructions run() has consumed
  f_machine_code,       \* machine_code of run()
  f_output,             \* lines written to the output file
  f_err,                \* the error the run ended with, "none" otherwise
  \* a single call of an encoder entry point
  call,                 \* the arguments
  ret,                  \* the result
  \* pass 2 of assembler.py with its records encoded in any order
  results               \* record index -> result of process_instruction

mainVars == <<pc, idx, labels, instructions, current_address, ip, binary_instructions,
              output, err>>
vidVars == <<v_pc, v_lines, v_idx, v_labels, v_instructions, v_current_address, asm1, v_ip,
             machine_code, v_output, v_err>>
finalVars == <<f_pc, source_lines, f_idx, label_table, parsed_insts, f_addr, f_ip,
               f_machine_code, f_output, f_err>>
callVars == <<call, ret, results>>

vars == <<lines, mainVars, vidVars, finalVars, callVars>>

-----------------------------------------------------------------------------
(* Bounds of the model *)

\* longest source file, in lines
MaxLines == 3
\* immediates given to the encoders range over -ImmSpan .. ImmSpan
ImmSpan == 4200

-----------------------------------------------------------------------------
(* Python str primitives *)

Whitespace == {" ", "\t"}
\* isalpha that also takes the digits
LettersOrDigits ==
  {"a","b","c","d","e","f","g","h","i","j","k","l","m","n","o","p","q","r","s","t","u","v",
   "w","x","y","z","0","1","2","3","4","5","6","7","8","9"}

Letters == {"a","b","c","d","e","f","g","h","i","j","k","l","m","n","o","p","q",
            "r","s","t","u","v","w","x","y","z"}
Digits == {"0","1","2","3","4","5","6","7","8","9"}
\* the class \w of re
WordChars == Letters \cup Digits \cup {"_"}

RECURSIVE lstrip(_)
lstrip(s) == IF s # <<>> /\ Head(s) \in Whitespace THEN lstrip(Tail(s)) ELSE s

RECURSIVE rstrip(_)
rstrip(s) ==
  IF s # <<>> /\ s[Len(s)] \in Whitespace THEN rstrip(SubSeq(s, 1, Len(s) - 1)) ELSE s

\* s.strip()
strip(s) == rstrip(lstrip(s))

\* index of the first element of s in set cs, 0 when there is none
RECURSIVE find_from(_, _, _)
find_from(s, cs, i) ==
  IF i > Len(s) THEN 0 ELSE IF s[i] \in cs THEN i ELSE find_from(s, cs, i + 1)

find(s, cs) == find_from(s, cs, 1)

\* c in s
contains(s, c) == find(s, {c}) # 0

\* s.startswith(p)
startswith(s, p) == Len(s) >= Len(p) /\ SubSeq(s, 1, Len(p)) = p

\* s.split(c, 1)
split_once(s, c) ==
  LET i == find(s, {c})
  IN  IF i = 0 THEN <<s>> ELSE <<SubSeq(s, 1, i - 1), SubSeq(s, i + 1, Len(s))>>

\* s.split(c) and re.split('[cs]', s): every separator splits, empty pieces are kept
RECURSIVE split_all(_, _)
split_all(s, cs) ==
  LET i == find(s, cs)
  IN  IF i = 0 THEN <<s>>
      ELSE <<SubSeq(s, 1, i - 1)>> \o split_all(SubSeq(s, i + 1, Len(s)), cs)

\* s.split(None, 1): runs of whitespace separate, at most one split
split_ws_once(s) ==
  LET t == lstrip(s)
      i == find(t, Whitespace)
      rest == lstrip(SubSeq(t, i + 1, Len(t)))
  IN  IF t = <<>> THEN <<>>
      ELSE IF i = 0 THEN <<t>>
      ELSE IF rest = <<>> THEN <<SubSeq(t, 1, i - 1)>>
      ELSE <<SubSeq(t, 1, i - 1), rest>>

\* s.split(): runs of whitespace separate, no empty pieces
RECURSIVE split_ws(_)
split_ws(s) ==
  LET t == lstrip(s)
      i == find(t, Whitespace)
  IN  IF t = <<>> THEN <<>>
      ELSE IF i = 0 THEN <<t>>
      ELSE <<SubSeq(t, 1, i - 1)>> \o split_ws(SubSeq(t, i + 1, Len(t)))

\* s.replace(c, "")
RECURSIVE remove_char(_, _)
remove_char(s, c) ==
  IF s = <<>> THEN <<>>
  ELSE (IF Head(s) = c THEN <<>> ELSE <<Head(s)>>) \o remove_char(Tail(s), c)

\* [op.strip() for op in pieces if op.strip() != ""]
RECURSIVE strip_nonempty(_)
strip_nonempty(pieces) ==
  IF pieces = <<>> THEN <<>>
  ELSE (IF strip(Head(pieces)) = <<>> THEN <<>> ELSE <<strip(Head(pieces))>>)
       \o strip_nonempty(Tail(pieces))

\* length of the longest prefix of s made of \w characters
RECURSIVE word_run(_)
word_run(s) == IF s # <<>> /\ Head(s) \in WordChars THEN 1 + word_run(Tail(s)) ELSE 0

\* re.match(r"(-?\w+)\((\w+)\)", s): the two groups, or no match
match_offset_reg(s) ==
  LET neg == IF s # <<>> /\ Head(s) = "-" THEN 1 ELSE 0
      s1 == SubSeq(s, neg + 1, Len(s))
      n1 == word_run(s1)
      s2 == SubSeq(s1, n1 + 2, Len(s1))
      n2 == word_run(s2)
  IN  IF /\ n1 >= 1
         /\ Len(s1) > n1 /\ s1[n1 + 1] = "("
         /\ n2 >= 1
         /\ Len(s2) > n2 /\ s2[n2 + 1] = ")"
      THEN [matched |-> TRUE, imm_str |-> SubSeq(s, 1, neg + n1), rs1_str |-> SubSeq(s2, 1, n2)]
      ELSE [matched |-> FALSE, imm_str |-> <<>>, rs1_str |-> <<>>]

\* value of one digit character
digit_value(c) ==
  CASE c = "0" -> 0 [] c = "1" -> 1 [] c = "2" -> 2 [] c = "3" -> 3 [] c = "4" -> 4
    [] c = "5" -> 5 [] c = "6" -> 6 [] c = "7" -> 7 [] c = "8" -> 8 [] c = "9" -> 9
    [] c = "a" -> 10 [] c = "b" -> 11 [] c = "c" -> 12 [] c = "d" -> 13
    [] c = "e" -> 14 [] c = "f" -> 15 [] OTHER -> 99

\* digits of the base, single underscores allowed between them
digits_ok(s, base) ==
  /\ s # <<>>
  /\ s[1] # "_" /\ s[Len(s)] # "_"
  /\ \A i \in 1..Len(s) :
       \/ s[i] = "_" /\ s[i + 1] # "_"
       \/ s[i] # "_" /\ digit_value(s[i]) < base

RECURSIVE digits_value(_, _, _)
digits_value(s, base, acc) ==
  IF s = <<>> THEN acc
  ELSE IF Head(s) = "_" THEN digits_value(Tail(s), base, acc)
  ELSE digits_value(Tail(s), base, acc * base + digit_value(Head(s)))

\* int(s, base) for base 10 and 16 on stripped text: [ok, val]
int(s, base) ==
  LET signed == s # <<>> /\ Head(s) \in {"+", "-"}
      body == IF signed THEN Tail(s) ELSE s
      prefixed == base = 16 /\ Len(body) >= 2 /\ body[1] = "0" /\ body[2] = "x"
      d0 == IF prefixed THEN SubSeq(body, 3, Len(body)) ELSE body
      d == IF prefixed /\ d0 # <<>> /\ Head(d0) = "_" THEN Tail(d0) ELSE d0
      v == digits_value(d, base, 0)
  IN  IF digits_ok(d, base)
      THEN [ok |-> TRUE, val |-> IF signed /\ Head(s) = "-" THEN 0 - v ELSE v]
      ELSE [ok |-> FALSE, val |-> 0]

-----------------------------------------------------------------------------
(* assembler.py: tables and encoders *)

\* a result of an encoder: a word, or the error raised and the line it names
\* a result that loses the first character of the word
Word_short(w) == [ok |-> TRUE, word |-> Tail(w), err |-> "none", line |-> 0]
Word(w) == [ok |-> TRUE, word |-> w, err |-> "none", line |-> 0]
Fail(e, line_num) == [ok |-> FALSE, word |-> <<>>, err |-> e, line |-> line_num]

\* format(n, '0{bits}b') for 0 <= n < 2^bits
RECURSIVE format_b(_, _)
format_b(n, bits) ==
  IF bits = 0 THEN <<>>
  ELSE format_b(n \div 2, bits - 1) \o <<IF n % 2 = 1 THEN "1" ELSE "0">>

\* to_binary that writes a negative number as its magnitude
to_binary_magnitude(n, bits) ==
  LET m == IF n < 0 THEN 0 - n ELSE n
  IN  IF m >= 2 ^ bits \/ m < 0
      THEN [ok |-> FALSE, bin |-> <<>>]
      ELSE [ok |-> TRUE, bin |-> format_b(m, bits)]

to_binary(n, bits) ==
  LET m == IF n < 0 THEN 2 ^ bits + n ELSE n
  IN  IF m >= 2 ^ bits \/ m < 0
      THEN [ok |-> FALSE, bin |-> <<>>]
      ELSE [ok |-> TRUE, bin |-> format_b(m, bits)]

registers ==
  (<<"z", "e", "r", "o">> :> 0) @@ (<<"r", "a">> :> 1) @@ (<<"s", "p">> :> 2) @@ (<<"g", "p">> :> 3) @@ (<<"t", "p">> :> 4) @@
  (<<"t", "0">> :> 5) @@ (<<"t", "1">> :> 6) @@ (<<"t", "2">> :> 7) @@ (<<"s", "0">> :> 8) @@ (<<"f", "p">> :> 8) @@
  (<<"s", "1">> :> 9) @@ (<<"a", "0">> :> 10) @@ (<<"a", "1">> :> 11) @@ (<<"a", "2">> :> 12) @@ (<<"a", "3">> :> 13) @@
  (<<"a", "4">> :> 14) @@ (<<"a", "5">> :> 15) @@ (<<"a", "6">> :> 16) @@ (<<"a", "7">> :> 17) @@ (<<"s", "2">> :> 18) @@
  (<<"s", "3">> :> 19) @@ (<<"s", "4">> :> 20) @@ (<<"s", "5">> :> 21) @@ (<<"s", "6">> :> 22) @@ (<<"s", "7">> :> 23) @@
  (<<"s", "8">> :> 24) @@ (<<"s", "9">> :> 25) @@ (<<"s", "1", "0">> :> 26) @@ (<<"s", "1", "1">> :> 27) @@ (<<"t", "3">> :> 28) @@
  (<<"t", "4">> :> 29) @@ (<<"t", "5">> :> 30) @@ (<<"t", "6">> :> 31)

R_instructions ==
  (<<"a", "d", "d">> :> [funct7 |-> <<"0", "0", "0", "0", "0", "0", "0">>, funct3 |-> <<"0", "0", "0">>, opcode |-> <<"0", "1", "1", "0", "0", "1", "1">>]) @@
  (<<"s", "u", "b">> :> [funct7 |-> <<"0", "1", "0", "0", "0", "0", "0">>, funct3 |-> <<"0", "0", "0">>, opcode |-> <<"0", "1", "1", "0", "0", "1", "1">>]) @@
  (<<"s", "l", "t">> :> [funct7 |-> <<"0", "0", "0", "0", "0", "0", "0">>, funct3 |-> <<"0", "1", "0">>, opcode |-> <<"0", "1", "1", "0", "0", "1", "1">>]) @@
  (<<"s", "r", "l">> :> [funct7 |-> <<"0", "0", "0", "0", "0", "0", "0">>, funct3 |-> <<"1", "0", "1">>, opcode |-> <<"0", "1", "1", "0", "0", "1", "1">>]) @@
  (<<"o", "r">>  :> [funct7 |-> <<"0", "0", "0", "0", "0", "0", "0">>, funct3 |-> <<"1", "1", "0">>, opcode |-> <<"0", "1", "1", "0", "0", "1", "1">>]) @@
  (<<"a", "n", "d">> :> [funct7 |-> <<"0", "0", "0", "0", "0", "0", "0">>, funct3 |-> <<"1", "1", "1">>, opcode |-> <<"0", "1", "1", "0", "0", "1", "1">>])

I_instructions ==
  (<<"a", "d", "d", "i">> :> [opcode |-> <<"0", "0", "1", "0", "0", "1", "1">>, funct3 |-> <<"0", "0", "0">>]) @@
  (<<"l", "w">>   :> [opcode |-> <<"0", "0", "0", "0", "0", "1", "1">>, funct3 |-> <<"0", "1", "0">>]) @@
  (<<"j", "a", "l", "r">> :> [opcode |-> <<"1", "1", "0", "0", "1", "1", "1">>, funct3 |-> <<"0", "0", "0">>])

S_instructions ==
  (<<"s", "w">> :> [opcode |-> <<"0", "1", "0", "0", "0", "1", "1">>, funct3 |-> <<"0", "1", "0">>])

B_instructions ==
  (<<"b", "e", "q">> :> [opcode |-> <<"1", "1", "0", "0", "0", "1", "1">>, funct3 |-> <<"0", "0", "0">>]) @@
  (<<"b", "n", "e">> :> [opcode |-> <<"1", "1", "0", "0", "0", "1", "1">>, funct3 |-> <<"0", "0", "1">>]) @@
  (<<"b", "l", "t">> :> [opcode |-> <<"1", "1", "0", "0", "0", "1", "1">>, funct3 |-> <<"1", "0", "0">>])

J_instructions ==
  (<<"j", "a", "l">> :> [opcode |-> <<"1", "1", "0", "1", "1", "1", "1">>])

\* a register number as its 5-bit field
reg_bin(r) == to_binary(r, 5).bin

parse_register(reg_str, line_num) ==
  IF strip(reg_str) \in DOMAIN registers
  THEN [ok |-> TRUE, val |-> registers[strip(reg_str)], err |-> "none"]
  ELSE [ok |-> FALSE, val |-> 0, err |-> "InvalidRegister"]

parse_immediate(imm_str, bits, line_num) ==
  LET s == strip(imm_str)
      r == IF startswith(s, <<"0", "x">>) \/ startswith(s, <<"-", "0", "x">>) THEN int(s, 16) ELSE int(s, 10)
  IN  IF r.ok THEN [ok |-> TRUE, val |-> r.val, err |-> "none"]
      ELSE [ok |-> FALSE, val |-> 0, err |-> "InvalidImmediate"]

encode_R_type(mnemonic, rd, rs1, rs2, line_num) ==
  LET info == R_instructions[mnemonic]
  IN  Word(info.funct7 \o reg_bin(rs2) \o reg_bin(rs1) \o info.funct3 \o reg_bin(rd)
           \o info.opcode)

\* encode_I_type with the two register fields exchanged
encode_I_type_swapped(mnemonic, rd, rs1, immediate, line_num) ==
  LET info == I_instructions[mnemonic]
      imm == to_binary(immediate, 12)
  IN  IF ~imm.ok THEN Fail("ImmediateOutOfRange", line_num)
      ELSE Word(imm.bin \o reg_bin(rd) \o info.funct3 \o reg_bin(rs1) \o info.opcode)

encode_I_type(mnemonic, rd, rs1, immediate, line_num) ==
  LET info == I_instructions[mnemonic]
      imm == to_binary(immediate, 12)
  IN  IF ~imm.ok THEN Fail("ImmediateOutOfRange", line_num)
      ELSE Word(imm.bin \o reg_bin(rs1) \o info.funct3 \o reg_bin(rd) \o info.opcode)

encode_S_type(mnemonic, rs1, rs2, immediate, line_num) ==
  LET info == S_instructions[mnemonic]
      imm == to_binary(immediate, 12)
      imm_high == SubSeq(imm.bin, 1, 7)
      imm_low == SubSeq(imm.bin, 8, 12)
  IN  IF ~imm.ok THEN Fail("ImmediateOutOfRange", line_num)
      ELSE Word(imm_high \o reg_bin(rs2) \o reg_bin(rs1) \o info.funct3 \o imm_low
                \o info.opcode)

\* encode_B_type without the alignment test: the low bit is dropped silently
encode_B_type_unchecked(mnemonic, rs1, rs2, immediate, line_num) ==
  LET info == B_instructions[mnemonic]
      imm == to_binary(immediate \div 2, 12)
  IN  IF ~imm.ok THEN Fail("ImmediateOutOfRange", line_num)
      ELSE Word(<<imm.bin[1]>> \o SubSeq(imm.bin, 2, 7) \o reg_bin(rs2) \o reg_bin(rs1)
                \o info.funct3 \o SubSeq(imm.bin, 8, 11) \o <<imm.bin[12]>> \o info.opcode)

encode_B_type(mnemonic, rs1, rs2, immediate, line_num) ==
  LET info == B_instructions[mnemonic]
      imm_val == immediate \div 2
      imm == to_binary(imm_val, 12)
      bit12 == <<imm.bin[1]>>
      bits10_5 == SubSeq(imm.bin, 2, 7)
      bits4_1 == SubSeq(imm.bin, 8, 11)
      bit11 == <<imm.bin[12]>>
  IN  IF immediate % 2 # 0 THEN Fail("MisalignedBranch", line_num)
      ELSE IF ~imm.ok THEN Fail("ImmediateOutOfRange", line_num)
      ELSE Word(bit12 \o bits10_5 \o reg_bin(rs2) \o reg_bin(rs1) \o info.funct3
                \o bits4_1 \o bit11 \o info.opcode)

encode_J_type(mnemonic, rd, immediate, line_num) ==
  LET info == J_instructions[mnemonic]
      imm == to_binary(immediate, 20)
      imm_20 == <<imm.bin[1]>>
      imm_19_12 == SubSeq(imm.bin, 2, 9)
      imm_11 == <<imm.bin[10]>>
      imm_10_1 == SubSeq(imm.bin, 11, 20)
  IN  IF immediate % 2 # 0 THEN Fail("MisalignedJump", line_num)
      ELSE IF ~imm.ok THEN Fail("ImmediateOutOfRange", line_num)
      ELSE Word(imm_20 \o imm_10_1 \o imm_11 \o imm_19_12 \o reg_bin(rd) \o info.opcode)

\* the result of process_instruction on blank text (None)
NoWord == [ok |-> TRUE, word |-> <<>>, err |-> "none", line |-> 0]

\* "if tok in labels: labels[tok] - cur_addr, else: parse_immediate(tok)"
resolve_immediate(tok, bits, cur_addr, lbls, line_num) ==
  IF tok \in DOMAIN lbls
  THEN [ok |-> TRUE, val |-> lbls[tok] - cur_addr, err |-> "none"]
  ELSE parse_immediate(tok, bits, line_num)

\* operands of the shape rd, rs1, immediate (addi, jalr)
process_I_arith(mnemonic, ops, cur_addr, lbls, line_num) ==
  LET rd == parse_register(ops[1], line_num)
      rs1 == parse_register(ops[2], line_num)
      imm == resolve_immediate(ops[3], 12, cur_addr, lbls, line_num)
  IN  IF Len(ops) # 3 THEN Fail("ArityError", line_num)
      ELSE IF ~rd.ok THEN Fail(rd.err, line_num)
      ELSE IF ~rs1.ok THEN Fail(rs1.err, line_num)
      ELSE IF ~imm.ok THEN Fail(imm.err, line_num)
      ELSE encode_I_type(mnemonic, rd.val, rs1.val, imm.val, line_num)

\* operands of the shape reg, offset(rs1) (lw, sw)
process_mem(mnemonic, ops, cur_addr, lbls, line_num) ==
  LET r == parse_register(ops[1], line_num)
      m == match_offset_reg(ops[2])
      imm == resolve_immediate(m.imm_str, 12, cur_addr, lbls, line_num)
      rs1 == parse_register(m.rs1_str, line_num)
  IN  IF Len(ops) # 2 THEN Fail("ArityError", line_num)
      ELSE IF ~r.ok THEN Fail(r.err, line_num)
      ELSE IF ~m.matched THEN Fail("InvalidOperandFormat", line_num)
      ELSE IF ~imm.ok THEN Fail(imm.err, line_num)
      ELSE IF ~rs1.ok THEN Fail(rs1.err, line_num)
      ELSE IF mnemonic = <<"l", "w">>
           THEN encode_I_type(mnemonic, r.val, rs1.val, imm.val, line_num)
           ELSE encode_S_type(mnemonic, rs1.val, r.val, imm.val, line_num)

process_R(mnemonic, ops, line_num) ==
  LET rd == parse_register(ops[1], line_num)
      rs1 == parse_register(ops[2], line_num)
      rs2 == parse_register(ops[3], line_num)
  IN  IF Len(ops) # 3 THEN Fail("ArityError", line_num)
      ELSE IF ~rd.ok THEN Fail(rd.err, line_num)
      ELSE IF ~rs1.ok THEN Fail(rs1.err, line_num)
      ELSE IF ~rs2.ok THEN Fail(rs2.err, line_num)
      ELSE encode_R_type(mnemonic, rd.val, rs1.val, rs2.val, line_num)

process_B(mnemonic, ops, cur_addr, lbls, line_num) ==
  LET rs1 == parse_register(ops[1], line_num)
      rs2 == parse_register(ops[2], line_num)
      imm == resolve_immediate(ops[3], 12, cur_addr, lbls, line_num)
  IN  IF Len(ops) # 3 THEN Fail("ArityError", line_num)
      ELSE IF ~rs1.ok THEN Fail(rs1.err, line_num)
      ELSE IF ~rs2.ok THEN Fail(rs2.err, line_num)
      ELSE IF ~imm.ok THEN Fail(imm.err, line_num)
      ELSE encode_B_type(mnemonic, rs1.val, rs2.val, imm.val, line_num)

process_J(mnemonic, ops, cur_addr, lbls, line_num) ==
  LET rd == parse_register(ops[1], line_num)
      imm == resolve_immediate(ops[2], 20, cur_addr, lbls, line_num)
  IN  IF Len(ops) # 2 THEN Fail("ArityError", line_num)
      ELSE IF ~rd.ok THEN Fail(rd.err, line_num)
      ELSE IF ~imm.ok THEN Fail(imm.err, line_num)
      ELSE encode_J_type(mnemonic, rd.val, imm.val, line_num)

\* mnemonic and the stripped, non-empty, comma-separated operands of an instruction
mnemonic_of(instr) == split_ws_once(strip(instr))[1]

operands_of(instr) ==
  LET parts == split_ws_once(strip(instr))
  IN  strip_nonempty(split_all(IF Len(parts) > 1 THEN parts[2] ELSE <<>>, {","}))

process_instruction(instr, cur_addr, lbls, line_num) ==
  LET mnemonic == mnemonic_of(instr)
      operands_list == operands_of(instr)
  IN  IF strip(instr) = <<>> THEN NoWord
      ELSE IF mnemonic \in DOMAIN R_instructions
        THEN process_R(mnemonic, operands_list, line_num)
      ELSE IF mnemonic \in DOMAIN I_instructions
        THEN IF mnemonic = <<"l", "w">>
             THEN process_mem(mnemonic, operands_list, cur_addr, lbls, line_num)
             ELSE process_I_arith(mnemonic, operands_list, cur_addr, lbls, line_num)
      ELSE IF mnemonic \in DOMAIN S_instructions
        THEN process_mem(mnemonic, operands_list, cur_addr, lbls, line_num)
      ELSE IF mnemonic \in DOMAIN B_instructions
        THEN process_B(mnemonic, operands_list, cur_addr, lbls, line_num)
      ELSE IF mnemonic \in DOMAIN J_instructions
        THEN process_J(mnemonic, operands_list, cur_addr, lbls, line_num)
      ELSE Fail("UnknownInstruction", line_num)

-----------------------------------------------------------------------------
(* assembler.py: main *)

\* the lines a source file is made of
Corpus ==
  { <<" ", " ">>,
    <<"a", "d", "d", "i", " ", "a", "0", ",", " ", "z", "e", "r", "o", ",", " ", "5">>,
    <<"b", "e", "q", " ", "z", "e", "r", "o", ",", "z", "e", "r", "o", ",", "0">>,
    <<"b", "e", "q", "z", " ", "z", "e", "r", "o", ",", "z", "e", "r", "o", ",", "0">>,
    <<"e", "n", "d", ":">>,
    <<"e", "n", "d", ":", " ", "b", "e", "q", " ", "z", "e", "r", "o", ",", " ", "z", "e", "r", "o", ",", " ", "0">>,
    <<"t", "o", "p", ":", " ", "a", "d", "d", "i", " ", "a", "0", ",", " ", "z", "e", "r", "o", ",", " ", "5">>,
    <<"j", "a", "l", " ", "r", "a", ",", "e", "n", "d">>,
    <<"1", "x", ":", " ", "a", "d", "d", " ", "a", "0", ",", "a", "0", ",", "a", "0">>,
    <<":">>,
    <<"b", "e", "q", " ", "a", "0", ",", "a", "1", ",", "3">>,
    <<"l", "w", " ", "a", "0", ",", "-", "4", "(", "s", "p", ")">> }

Sources == UNION {[1..n -> Corpus] : n \in 0..MaxLines}

NoCall ==
  [fn |-> "none", instr |-> <<>>, current_address |-> 0, labels |-> <<>>, line_num |-> 0,
   mnemonic |-> <<>>, regs |-> <<>>, imm |-> 0]
NoRet == [done |-> FALSE, ok |-> FALSE, word |-> <<>>, err |-> "none", line |-> 0]

\* the variables of a program that is not running
MainIdle ==
  /\ pc = "idle"
  /\ idx = 0
  /\ labels = <<>>
  /\ instructions = <<>>
  /\ current_address = 0
  /\ ip = 0
  /\ binary_instructions = <<>>
  /\ output = <<>>
  /\ err = "none"

VidIdle ==
  /\ v_pc = "idle"
  /\ v_lines = <<>>
  /\ v_idx = 0
  /\ v_labels = <<>>
  /\ v_instructions = <<>>
  /\ v_current_address = 0
  /\ asm1 = <<>>
  /\ v_ip = 0
  /\ machine_code = <<>>
  /\ v_output = <<>>
  /\ v_err = "none"

FinalIdle ==
  /\ f_pc = "idle"
  /\ source_lines = <<>>
  /\ f_idx = 0
  /\ label_table = <<>>
  /\ parsed_insts = <<>>
  /\ f_addr = 0
  /\ f_ip = 0
  /\ f_machine_code = <<>>
  /\ f_output = <<>>
  /\ f_err = "none"

CallIdle ==
  /\ call = NoCall
  /\ ret = NoRet
  /\ results = <<>>

\* main() after f.readlines()
Init ==
  /\ lines \in Sources
  /\ pc = "pass1"
  /\ idx = 0
  /\ labels = <<>>
  /\ instructions = <<>>
  /\ current_address = 0
  /\ ip = 0
  /\ binary_instructions = <<>>
  /\ output = <<>>
  /\ err = "none"
  /\ VidIdle /\ FinalIdle /\ CallIdle

\* sys.exit(1) after printing an error
Exit(e) ==
  /\ pc' = "failed"
  /\ err' = e

\* a binding that keeps the first address a name was given
bind_keep_first(lbls, label_name, addr) ==
  [n \in DOMAIN lbls \cup {label_name} |-> IF n \in DOMAIN lbls THEN lbls[n] ELSE addr]

\* labels[label_name] = current_address
bind(lbls, label_name, addr) ==
  [n \in DOMAIN lbls \cup {label_name} |-> IF n = label_name THEN addr ELSE lbls[n]]

\* a label-only line that advances the address counter like an instruction
after_label_only_advancing(addr) == addr + 4

\* address counter after a line that holds only a label: not advanced
after_label_only(addr) == addr

\* one iteration of the first-pass loop
Pass1Step ==
  /\ pc = "pass1"
  /\ idx < Len(lines)
  /\ LET line_stripped == strip(lines[idx + 1])
         parts == split_once(line_stripped, ":")
         label_name == strip(parts[1])
         rest == strip(parts[2])
     IN  IF line_stripped = <<>>
         THEN /\ idx' = idx + 1
              /\ UNCHANGED <<pc, labels, instructions, current_address, err>>
         ELSE IF contains(line_stripped, ":")
         THEN IF label_name = <<>> \/ label_name[1] \notin Letters
              THEN /\ Exit("InvalidLabel")
                   /\ UNCHANGED <<idx, labels, instructions, current_address>>
              ELSE /\ labels' = bind(labels, label_name, current_address)
                   /\ idx' = idx + 1
                   /\ IF rest # <<>>
                      THEN /\ instructions' = Append(instructions,
                                [text |-> rest, line_num |-> idx + 1, addr |-> current_address])
                           /\ current_address' = current_address + 4
                      ELSE /\ instructions' = instructions
                           /\ current_address' = after_label_only(current_address)
                   /\ UNCHANGED <<pc, err>>
         ELSE /\ instructions' = Append(instructions,
                   [text |-> line_stripped, line_num |-> idx + 1, addr |-> current_address])
              /\ current_address' = current_address + 4
              /\ idx' = idx + 1
              /\ UNCHANGED <<pc, labels, err>>
  /\ UNCHANGED <<lines, ip, binary_instructions, output, vidVars, finalVars, callVars>>

\* the check main makes of the last instruction's text (lines 298-305)
passes_halt_check(last_instr_text) ==
  LET parts == split_ws_once(last_instr_text)
  IN  /\ startswith(last_instr_text, <<"b", "e", "q">>)
      /\ Len(parts) >= 2
      /\ remove_char(parts[2], " ") = <<"z", "e", "r", "o", ",", "z", "e", "r", "o", ",", "0">>

\* the checks made, and pass 2 entered, before the first-pass loop has ended
CheckProgram_early ==
  /\ pc = "pass1"
  /\ IF Len(instructions) = 0 THEN Exit("EmptyProgram")
     ELSE IF ~passes_halt_check(instructions[Len(instructions)].text) THEN Exit("MissingHalt")
     ELSE pc' = "pass2" /\ err' = err
  /\ UNCHANGED <<lines, idx, labels, instructions, current_address, ip,
                 binary_instructions, output, vidVars, finalVars, callVars>>

\* after the first-pass loop: the empty-program and virtual-halt checks
CheckProgram ==
  /\ pc = "pass1"
  /\ idx = Len(lines)
  /\ IF Len(instructions) = 0 THEN Exit("EmptyProgram")
     ELSE IF ~passes_halt_check(instructions[Len(instructions)].text) THEN Exit("MissingHalt")
     ELSE pc' = "pass2" /\ err' = err
  /\ UNCHANGED <<lines, idx, labels, instructions, current_address, ip,
                 binary_instructions, output, vidVars, finalVars, callVars>>

\* one iteration of the second-pass loop
Pass2Step ==
  /\ pc = "pass2"
  /\ ip < Len(instructions)
  /\ LET rec == instructions[ip + 1]
         encoded == process_instruction(rec.text, rec.addr, labels, rec.line_num)
     IN  IF ~encoded.ok
         THEN Exit(encoded.err) /\ UNCHANGED <<ip, binary_instructions>>
         ELSE /\ ip' = ip + 1
              /\ binary_instructions' =
                   IF encoded = NoWord THEN binary_instructions
                   ELSE Append(binary_instructions, encoded.word)
              /\ UNCHANGED <<pc, err>>
  /\ UNCHANGED <<lines, idx, labels, instructions, current_address, output, vidVars,
                 finalVars, callVars>>

\* the words encoded so far written while the second-pass loop is running
WriteOutput_early ==
  /\ pc = "pass2"
  /\ output' = binary_instructions
  /\ pc' = IF ip = Len(instructions) THEN "done" ELSE pc
  /\ UNCHANGED <<lines, idx, labels, instructions, current_address, ip,
                 binary_instructions, err, vidVars, finalVars, callVars>>

\* after the second-pass loop: the words are written, one per line
WriteOutput ==
  /\ pc = "pass2"
  /\ ip = Len(instructions)
  /\ output' = binary_instructions
  /\ pc' = "done"
  /\ UNCHANGED <<lines, idx, labels, instructions, current_address, ip,
                 binary_instructions, err, vidVars, finalVars, callVars>>

Next == Pass1Step \/ CheckProgram \/ Pass2Step \/ WriteOutput

Spec == Init /\ [][Next]_vars


-----------------------------------------------------------------------------
(* assembler.py: pass 2 with the records encoded in any order *)

\* the first-pass loop and the checks after it have been passed
PassOneComplete ==
  /\ idx = Len(lines)
  /\ pc \in {"pass2", "done", "failed"}
  /\ err \notin {"InvalidLabel", "EmptyProgram", "MissingHalt"}

\* a call of process_instruction that takes its address from the number of calls made
\* before it instead of from the record
EncodeAny_positional ==
  /\ PassOneComplete
  /\ \E i \in (1..Len(instructions)) \ DOMAIN results :
       LET rec == instructions[i]
       IN  results' = results @@
             (i :> process_instruction(rec.text, 4 * Cardinality(DOMAIN results), labels,
                                       rec.line_num))
  /\ UNCHANGED <<lines, mainVars, vidVars, finalVars, call, ret>>

\* the body of the second-pass loop run on any record not yet encoded: the call
\* process_instruction(instr_text, addr, labels, line_num), which reads the table
EncodeAny ==
  /\ PassOneComplete
  /\ \E i \in (1..Len(instructions)) \ DOMAIN results :
       LET rec == instructions[i]
       IN  results' = results @@
             (i :> process_instruction(rec.text, rec.addr, labels, rec.line_num))
  /\ UNCHANGED <<lines, mainVars, vidVars, finalVars, call, ret>>

NextPar == Pass1Step \/ CheckProgram \/ Pass2Step \/ WriteOutput \/ EncodeAny

SpecPar == Init /\ [][NextPar]_vars
-----------------------------------------------------------------------------
(* Single calls of process_instruction *)

\* str(n)
RECURSIVE decimal_digits(_)
decimal_digits(n) ==
  LET d == <<"0","1","2","3","4","5","6","7","8","9">>[(n % 10) + 1]
  IN  IF n < 10 THEN <<d>> ELSE decimal_digits(n \div 10) \o <<d>>

decimal(n) == IF n < 0 THEN <<"-">> \o decimal_digits(0 - n) ELSE decimal_digits(n)

\* immediates the calls are made with: a full interval around 0 and the
\* neighbourhoods of the powers of two at which a width ends
EdgeImms ==
  UNION {{b - 2, b - 1, b, b + 1, b + 2, 0 - b - 2, 0 - b - 1, 0 - b, 0 - b + 1, 0 - b + 2} :
           b \in {2 ^ 11, 2 ^ 12, 2 ^ 13, 2 ^ 19, 2 ^ 20}}

Imms == ((0 - ImmSpan)..ImmSpan) \cup EdgeImms

\* register operands of the calls, by name
RegNames == {<<<<"z", "e", "r", "o">>, <<"z", "e", "r", "o">>>>, <<<<"a", "0">>, <<"a", "1">>>>, <<<<"t", "6">>, <<"s", "1", "1">>>>}

\* a call of process_instruction on text that spells out mnemonic, regs and imm
PICall(text, addr, lbls, m, rs, i) ==
  [fn |-> "process_instruction", instr |-> text, current_address |-> addr,
   labels |-> lbls, line_num |-> 1, mnemonic |-> m, regs |-> rs, imm |-> i]

\* op r1,r2,imm
Text3(m, rs, immtext) == m \o <<" ">> \o rs[1] \o <<",">> \o rs[2] \o <<",">> \o immtext
\* op r1,imm(r2)
TextMem(m, rs, immtext) == m \o <<" ">> \o rs[1] \o <<",">> \o immtext \o <<"(">> \o rs[2] \o <<")">>
\* op r1,imm
Text2(m, rs, immtext) == m \o <<" ">> \o rs[1] \o <<",">> \o immtext

NoLabels == <<>>

\* addresses of instructions and labels in the calls that refer to a label
Addrs == {0, 4, 8, 12, 16}

\* calls whose immediate operand is a number
ImmCall(c) ==
  \/ \E m \in {<<"b", "e", "q">>, <<"b", "n", "e">>, <<"b", "l", "t">>, <<"a", "d", "d", "i">>, <<"j", "a", "l", "r">>}, rs \in RegNames, i \in Imms :
       c = PICall(Text3(m, rs, decimal(i)), 0, NoLabels, m, rs, i)
  \/ \E m \in {<<"l", "w">>, <<"s", "w">>}, rs \in RegNames, i \in Imms :
       c = PICall(TextMem(m, rs, decimal(i)), 0, NoLabels, m, rs, i)
  \/ \E rs \in RegNames, i \in Imms :
       c = PICall(Text2(<<"j", "a", "l">>, rs, decimal(i)), 0, NoLabels, <<"j", "a", "l">>, rs, i)

\* calls whose immediate operand is a label bound to address l, made at address a
LabelCall(c) ==
  \/ \E m \in {<<"b", "e", "q">>, <<"a", "d", "d", "i">>}, a \in Addrs, l \in Addrs :
       c = PICall(Text3(m, <<<<"a", "0">>, <<"a", "1">>>>, <<"e", "n", "d">>), a, (<<"e", "n", "d">> :> l), m,
                  <<<<"a", "0">>, <<"a", "1">>>>, l - a)
  \/ \E a \in Addrs, l \in Addrs :
       c = PICall(Text2(<<"j", "a", "l">>, <<<<"r", "a">>>>, <<"e", "n", "d">>), a, (<<"e", "n", "d">> :> l), <<"j", "a", "l">>, <<<<"r", "a">>>>,
                  l - a)

OtherCalls ==
  { PICall(<<"a", "d", "d", "i", " ", "a", "0", ",", " ", "z", "e", "r", "o", ",", " ", "5">>, 0, NoLabels, <<"a", "d", "d", "i">>, <<<<"a", "0">>, <<"z", "e", "r", "o">>>>, 5),
    PICall(<<"a", "d", "d", " ", "a", "0", ",", " ", "a", "1", ",", " ", "a", "2">>, 0, NoLabels, <<"a", "d", "d">>, <<<<"a", "0">>, <<"a", "1">>, <<"a", "2">>>>, 0),
    PICall(<<"s", "u", "b", " ", "t", "6", ",", "t", "5", ",", "t", "4">>, 0, NoLabels, <<"s", "u", "b">>, <<<<"t", "6">>, <<"t", "5">>, <<"t", "4">>>>, 0),
    PICall(<<"a", "d", "d", "i", " ", "a", "0", ",", "z", "e", "r", "o", ",", "0", "x", "7", "f", "f">>, 0, NoLabels, <<"a", "d", "d", "i">>, <<<<"a", "0">>, <<"z", "e", "r", "o">>>>, 2047),
    PICall(<<"a", "d", "d", "i", " ", "a", "0", ",", "z", "e", "r", "o", ",", "-", "0", "x", "8", "0", "0">>, 0, NoLabels, <<"a", "d", "d", "i">>, <<<<"a", "0">>, <<"z", "e", "r", "o">>>>, 0 - 2048),
    PICall(<<"a", "d", "d", "i", " ", "a", "0", ",", "z", "e", "r", "o", ",", "0", "x", "1", "0", "0", "0">>, 0, NoLabels, <<"a", "d", "d", "i">>, <<<<"a", "0">>, <<"z", "e", "r", "o">>>>, 4096),
    PICall(<<"b", "e", "q", " ", "a", "0", ",", "a", "1", ",", "0", "x", "3">>, 0, NoLabels, <<"b", "e", "q">>, <<<<"a", "0">>, <<"a", "1">>>>, 3) }

Done(r) == [done |-> TRUE, ok |-> r.ok, word |-> r.word, err |-> r.err, line |-> r.line]

InitEnc ==
  /\ ImmCall(call) \/ LabelCall(call) \/ call \in OtherCalls
  /\ ret = NoRet
  /\ results = <<>>
  /\ lines = <<>>
  /\ MainIdle /\ VidIdle /\ FinalIdle

ApplyProcessInstruction ==
  /\ call.fn = "process_instruction"
  /\ ~ret.done
  /\ ret' = Done(process_instruction(call.instr, call.current_address, call.labels,
                                     call.line_num))
  /\ UNCHANGED <<lines, mainVars, vidVars, finalVars, call, results>>

NextEnc == ApplyProcessInstruction

SpecEnc == InitEnc /\ [][NextEnc]_vars


-----------------------------------------------------------------------------
(* Single calls of to_binary *)

\* a call to_binary(n, bits)
BinCall(n, bits) == [fn |-> "to_binary", n |-> n, bits |-> bits]

\* the widths to_binary is called with: the register field and the immediates
BinWidths == {5, 12, 13, 20, 21}

\* the powers of two up to the widest width, and their neighbours
PowerImms == UNION {{2 ^ k, 2 ^ k - 1, 0 - 2 ^ k, 1 - 2 ^ k, 0 - 2 ^ k - 1} : k \in 0..21}

InitBin ==
  /\ \E n \in Imms \cup PowerImms, bits \in BinWidths : call = BinCall(n, bits)
  /\ ret = NoRet
  /\ results = <<>>
  /\ lines = <<>>
  /\ MainIdle /\ VidIdle /\ FinalIdle

ApplyToBinary ==
  /\ call.fn = "to_binary"
  /\ ~ret.done
  /\ LET r == to_binary(call.n, call.bits)
     IN  ret' = [done |-> TRUE, ok |-> r.ok, word |-> r.bin,
                 err |-> IF r.ok THEN "none" ELSE "ValueError", line |-> 0]
  /\ UNCHANGED <<lines, mainVars, vidVars, finalVars, call, results>>

NextBin == ApplyToBinary

SpecBin == InitBin /\ [][NextBin]_vars
-----------------------------------------------------------------------------
(* vidhush_bhaiya.py: tables and Assembler.assemble_instruction *)

\* opcode, funct3, funct7 of every mnemonic; <<>> stands for None
instructions_dict ==
  (<<"j", "a", "l">>   :> [opcode |-> <<"1", "1", "0", "1", "1", "1", "1">>, funct3 |-> <<>>, funct7 |-> <<>>]) @@
  (<<"l", "u", "i">>   :> [opcode |-> <<"0", "1", "1", "0", "1", "1", "1">>, funct3 |-> <<>>, funct7 |-> <<>>]) @@
  (<<"a", "u", "i", "p", "c">> :> [opcode |-> <<"0", "0", "1", "0", "1", "1", "1">>, funct3 |-> <<>>, funct7 |-> <<>>]) @@
  (<<"b", "e", "q">>   :> [opcode |-> <<"1", "1", "0", "0", "0", "1", "1">>, funct3 |-> <<"0", "0", "0">>, funct7 |-> <<>>]) @@
  (<<"b", "n", "e">>   :> [opcode |-> <<"1", "1", "0", "0", "0", "1", "1">>, funct3 |-> <<"0", "0", "1">>, funct7 |-> <<>>]) @@
  (<<"b", "l", "t">>   :> [opcode |-> <<"1", "1", "0", "0", "0", "1", "1">>, funct3 |-> <<"1", "0", "0">>, funct7 |-> <<>>]) @@
  (<<"b", "g", "e">>   :> [opcode |-> <<"1", "1", "0", "0", "0", "1", "1">>, funct3 |-> <<"1", "0", "1">>, funct7 |-> <<>>]) @@
  (<<"b", "l", "t", "u">>  :> [opcode |-> <<"1", "1", "0", "0", "0", "1", "1">>, funct3 |-> <<"1", "1", "0">>, funct7 |-> <<>>]) @@
  (<<"b", "g", "e", "u">>  :> [opcode |-> <<"1", "1", "0", "0", "0", "1", "1">>, funct3 |-> <<"1", "1", "1">>, funct7 |-> <<>>]) @@
  (<<"s", "w">>    :> [opcode |-> <<"0", "1", "0", "0", "0", "1", "1">>, funct3 |-> <<"0", "1", "0">>, funct7 |-> <<>>]) @@
  (<<"l", "w">>    :> [opcode |-> <<"0", "0", "0", "0", "0", "1", "1">>, funct3 |-> <<"0", "1", "0">>, funct7 |-> <<>>]) @@
  (<<"a", "d", "d", "i">>  :> [opcode |-> <<"0", "0", "1", "0", "0", "1", "1">>, funct3 |-> <<"0", "0", "0">>, funct7 |-> <<>>]) @@
  (<<"s", "l", "t", "i", "u">> :> [opcode |-> <<"0", "0", "1", "0", "0", "1", "1">>, funct3 |-> <<"0", "1", "1">>, funct7 |-> <<>>]) @@
  (<<"j", "a", "l", "r">>  :> [opcode |-> <<"1", "1", "0", "0", "1", "1", "1">>, funct3 |-> <<"0", "0", "0">>, funct7 |-> <<>>]) @@
  (<<"a", "d", "d">>   :> [opcode |-> <<"0", "1", "1", "0", "0", "1", "1">>, funct3 |-> <<"0", "0", "0">>, funct7 |-> <<"0", "0", "0", "0", "0", "0", "0">>]) @@
  (<<"s", "u", "b">>   :> [opcode |-> <<"0", "1", "1", "0", "0", "1", "1">>, funct3 |-> <<"0", "0", "0">>, funct7 |-> <<"0", "1", "0", "0", "0", "0", "0">>]) @@
  (<<"s", "l", "l">>   :> [opcode |-> <<"0", "1", "1", "0", "0", "1", "1">>, funct3 |-> <<"0", "0", "1">>, funct7 |-> <<"0", "0", "0", "0", "0", "0", "0">>]) @@
  (<<"s", "l", "t">>   :> [opcode |-> <<"0", "1", "1", "0", "0", "1", "1">>, funct3 |-> <<"0", "1", "0">>, funct7 |-> <<"0", "0", "0", "0", "0", "0", "0">>]) @@
  (<<"s", "l", "t", "u">>  :> [opcode |-> <<"0", "1", "1", "0", "0", "1", "1">>, funct3 |-> <<"0", "1", "1">>, funct7 |-> <<"0", "0", "0", "0", "0", "0", "0">>]) @@
  (<<"x", "o", "r">>   :> [opcode |-> <<"0", "1", "1", "0", "0", "1", "1">>, funct3 |-> <<"1", "0", "0">>, funct7 |-> <<"0", "0", "0", "0", "0", "0", "0">>]) @@
  (<<"s", "r", "l">>   :> [opcode |-> <<"0", "1", "1", "0", "0", "1", "1">>, funct3 |-> <<"1", "0", "1">>, funct7 |-> <<"0", "0", "0", "0", "0", "0", "0">>]) @@
  (<<"o", "r">>    :> [opcode |-> <<"0", "1", "1", "0", "0", "1", "1">>, funct3 |-> <<"1", "1", "0">>, funct7 |-> <<"0", "0", "0", "0", "0", "0", "0">>]) @@
  (<<"a", "n", "d">>   :> [opcode |-> <<"0", "1", "1", "0", "0", "1", "1">>, funct3 |-> <<"1", "1", "1">>, funct7 |-> <<"0", "0", "0", "0", "0", "0", "0">>])

\* register name -> 5-bit field
v_registers ==
  (<<"z", "e", "r", "o">> :> <<"0", "0", "0", "0", "0">>) @@ (<<"r", "a">> :> <<"0", "0", "0", "0", "1">>) @@ (<<"s", "p">> :> <<"0", "0", "0", "1", "0">>) @@
  (<<"g", "p">> :> <<"0", "0", "0", "1", "1">>) @@ (<<"t", "p">> :> <<"0", "0", "1", "0", "0">>) @@ (<<"t", "0">> :> <<"0", "0", "1", "0", "1">>) @@
  (<<"t", "1">> :> <<"0", "0", "1", "1", "0">>) @@ (<<"t", "2">> :> <<"0", "0", "1", "1", "1">>) @@ (<<"s", "0">> :> <<"0", "1", "0", "0", "0">>) @@
  (<<"s", "1">> :> <<"0", "1", "0", "0", "1">>) @@ (<<"a", "0">> :> <<"0", "1", "0", "1", "0">>) @@ (<<"a", "1">> :> <<"0", "1", "0", "1", "1">>) @@
  (<<"a", "2">> :> <<"0", "1", "1", "0", "0">>) @@ (<<"a", "3">> :> <<"0", "1", "1", "0", "1">>) @@ (<<"a", "4">> :> <<"0", "1", "1", "1", "0">>) @@
  (<<"a", "5">> :> <<"0", "1", "1", "1", "1">>) @@ (<<"a", "6">> :> <<"1", "0", "0", "0", "0">>) @@ (<<"a", "7">> :> <<"1", "0", "0", "0", "1">>) @@
  (<<"s", "2">> :> <<"1", "0", "0", "1", "0">>) @@ (<<"s", "3">> :> <<"1", "0", "0", "1", "1">>) @@ (<<"s", "4">> :> <<"1", "0", "1", "0", "0">>) @@
  (<<"s", "5">> :> <<"1", "0", "1", "0", "1">>) @@ (<<"s", "6">> :> <<"1", "0", "1", "1", "0">>) @@ (<<"s", "7">> :> <<"1", "0", "1", "1", "1">>) @@
  (<<"s", "8">> :> <<"1", "1", "0", "0", "0">>) @@ (<<"s", "9">> :> <<"1", "1", "0", "0", "1">>) @@ (<<"s", "1", "0">> :> <<"1", "1", "0", "1", "0">>) @@
  (<<"s", "1", "1">> :> <<"1", "1", "0", "1", "1">>) @@ (<<"t", "3">> :> <<"1", "1", "1", "0", "0">>) @@ (<<"t", "4">> :> <<"1", "1", "1", "0", "1">>) @@
  (<<"t", "5">> :> <<"1", "1", "1", "1", "0">>) @@ (<<"t", "6">> :> <<"1", "1", "1", "1", "1">>)

\* registers.get(name): the field, or None
v_get(name) ==
  IF name \in DOMAIN v_registers
  THEN [ok |-> TRUE, bin |-> v_registers[name]]
  ELSE [ok |-> FALSE, bin |-> <<>>]

\* '{:0<bits>b}'.format(imm_val if imm_val >= 0 else 2**bits + imm_val)
v_format(imm_val, bits) == format_b(IF imm_val >= 0 THEN imm_val ELSE 2 ^ bits + imm_val, bits)

\* "try: int(tok) except ValueError: the label's address - current_address, or exit"
v_number_or_label(tok, cur_addr, lbls) ==
  LET n == int(tok, 10)
  IN  IF n.ok THEN [ok |-> TRUE, val |-> n.val, err |-> "none"]
      ELSE IF tok \in DOMAIN lbls
      THEN [ok |-> TRUE, val |-> lbls[tok] - cur_addr, err |-> "none"]
      ELSE [ok |-> FALSE, val |-> 0, err |-> "InvalidLabel"]

\* "try: int(tok) except ValueError: exit"
v_number(tok) ==
  LET n == int(tok, 10)
  IN  IF n.ok THEN [ok |-> TRUE, val |-> n.val, err |-> "none"]
      ELSE [ok |-> FALSE, val |-> 0, err |-> "InvalidImmediate"]

v_jal(d, a, cur_addr, lbls) ==
  LET rd == v_get(a[1])
      n == v_number_or_label(a[2], cur_addr, lbls)
      imm == v_format(n.val, 21)
  IN  IF Len(a) # 2 THEN Fail("ArityError", 0)
      ELSE IF ~rd.ok THEN Fail("InvalidRegister", 0)
      ELSE IF ~n.ok THEN Fail(n.err, 0)
      ELSE IF n.val >= 2 ^ 20 \/ n.val < 0 - 2 ^ 20 THEN Fail("ImmediateOutOfRange", 0)
      ELSE Word(<<imm[1]>> \o SubSeq(imm, 11, 20) \o <<imm[10]>> \o SubSeq(imm, 2, 9)
                \o rd.bin \o d.opcode)

v_jalr(d, a, cur_addr, lbls) ==
  LET rd == v_get(a[1])
      rs1 == v_get(a[2])
      n == v_number_or_label(a[3], cur_addr, lbls)
      imm == v_format(n.val, 12)
  IN  IF Len(a) # 3 THEN Fail("ArityError", 0)
      ELSE IF ~rd.ok \/ ~rs1.ok THEN Fail("InvalidRegister", 0)
      ELSE IF ~n.ok THEN Fail(n.err, 0)
      ELSE IF n.val >= 2 ^ 11 \/ n.val < 0 - 2 ^ 11 THEN Fail("ImmediateOutOfRange", 0)
      ELSE Word(imm \o rs1.bin \o d.funct3 \o rd.bin \o d.opcode)

v_branch(d, a, cur_addr, lbls) ==
  LET rs1 == v_get(a[1])
      rs2 == v_get(a[2])
      n == v_number_or_label(a[3], cur_addr, lbls)
      imm == v_format(n.val, 13)
  IN  IF Len(a) # 3 THEN Fail("ArityError", 0)
      ELSE IF ~rs1.ok \/ ~rs2.ok THEN Fail("InvalidRegister", 0)
      ELSE IF ~n.ok THEN Fail(n.err, 0)
      ELSE IF n.val >= 2 ^ 12 \/ n.val < 0 - 2 ^ 12 THEN Fail("ImmediateOutOfRange", 0)
      ELSE Word(<<imm[1]>> \o SubSeq(imm, 3, 8) \o rs2.bin \o rs1.bin \o d.funct3
                \o SubSeq(imm, 9, 12) \o <<imm[2]>> \o d.opcode)

\* lw rd, imm(rs1) and sw rs2, imm(rs1): three arguments once the parentheses split
v_mem(opcode_str, d, a) ==
  LET r == v_get(a[1])
      n == v_number(a[2])
      rs1 == v_get(a[3])
      imm == v_format(n.val, 12)
  IN  IF Len(a) # 3 THEN Fail("ArityError", 0)
      ELSE IF ~r.ok THEN Fail("InvalidRegister", 0)
      ELSE IF ~n.ok THEN Fail(n.err, 0)
      ELSE IF ~rs1.ok THEN Fail("InvalidRegister", 0)
      ELSE IF n.val >= 2 ^ 11 \/ n.val < 0 - 2 ^ 11 THEN Fail("ImmediateOutOfRange", 0)
      ELSE IF opcode_str = <<"l", "w">>
           THEN Word(imm \o rs1.bin \o d.funct3 \o r.bin \o d.opcode)
           ELSE Word(SubSeq(imm, 1, 7) \o r.bin \o rs1.bin \o d.funct3 \o SubSeq(imm, 8, 12)
                     \o d.opcode)

v_arith_imm(d, a) ==
  LET rd == v_get(a[1])
      rs1 == v_get(a[2])
      n == v_number(a[3])
      imm == v_format(n.val, 12)
  IN  IF Len(a) # 3 THEN Fail("ArityError", 0)
      ELSE IF ~rd.ok \/ ~rs1.ok THEN Fail("InvalidRegister", 0)
      ELSE IF ~n.ok THEN Fail(n.err, 0)
      ELSE IF n.val >= 2 ^ 11 \/ n.val < 0 - 2 ^ 11 THEN Fail("ImmediateOutOfRange", 0)
      ELSE Word(imm \o rs1.bin \o d.funct3 \o rd.bin \o d.opcode)

v_reg3(d, a) ==
  LET rd == v_get(a[1])
      rs1 == v_get(a[2])
      rs2 == v_get(a[3])
  IN  IF Len(a) # 3 THEN Fail("ArityError", 0)
      ELSE IF ~rd.ok \/ ~rs1.ok \/ ~rs2.ok THEN Fail("InvalidRegister", 0)
      ELSE Word(d.funct7 \o rs2.bin \o rs1.bin \o d.funct3 \o rd.bin \o d.opcode)

\* instruction is the pair <<opcode_str, args>> of self.asm1
assemble_instruction(instruction, cur_addr, lbls) ==
  LET opcode_str == instruction[1]
      d == instructions_dict[opcode_str]
      arguments == strip_nonempty(split_all(instruction[2], {",", "(", ")"}))
  IN  IF opcode_str \notin DOMAIN instructions_dict THEN Fail("InvalidInstruction", 0)
      ELSE IF opcode_str = <<"j", "a", "l">> THEN v_jal(d, arguments, cur_addr, lbls)
      ELSE IF opcode_str = <<"j", "a", "l", "r">> THEN v_jalr(d, arguments, cur_addr, lbls)
      ELSE IF opcode_str \in {<<"b", "e", "q">>, <<"b", "n", "e">>, <<"b", "l", "t">>, <<"b", "g", "e">>, <<"b", "l", "t", "u">>, <<"b", "g", "e", "u">>}
        THEN v_branch(d, arguments, cur_addr, lbls)
      ELSE IF opcode_str \in {<<"l", "w">>, <<"s", "w">>} THEN v_mem(opcode_str, d, arguments)
      ELSE IF opcode_str \in {<<"a", "d", "d", "i">>, <<"s", "l", "t", "i", "u">>} THEN v_arith_imm(d, arguments)
      ELSE IF opcode_str \in {<<"a", "d", "d">>, <<"s", "u", "b">>, <<"s", "l", "l">>, <<"s", "l", "t">>, <<"s", "l", "t", "u">>, <<"x", "o", "r">>, <<"s", "r", "l">>,
                              <<"o", "r">>, <<"a", "n", "d">>}
        THEN v_reg3(d, arguments)
      ELSE Fail("UnknownInstruction", 0)

-----------------------------------------------------------------------------
(* vidhush_bhaiya.py: Assembler.__init__, assemble, write_to_file *)

\* the lines a source file given to vidhush_bhaiya.py is made of
VidCorpus ==
  { <<" ", " ">>,
    <<"a", "d", "d", "i", " ", "a", "0", ",", "z", "e", "r", "o", ",", "5">>,
    <<"b", "e", "q", " ", "z", "e", "r", "o", ",", "z", "e", "r", "o", ",", "0">>,
    <<"b", "e", "q", " ", "z", "e", "r", "o", ",", " ", "z", "e", "r", "o", ",", " ", "0">>,
    <<"e", "n", "d", ":">>,
    <<"j", "a", "l", " ", "r", "a", ",", "e", "n", "d">>,
    <<"e", "n", "d", " ", ":", " ", "a", "d", "d", "i", " ", "a", "0", ",", "z", "e", "r", "o", ",", "1">>,
    <<"b", "e", "q", " ", "a", "0", ",", "a", "1", ",", "3">>,
    <<"l", "u", "i", " ", "a", "0", ",", "5">>,
    <<"h", "a", "l", "t">> }

VidSources == UNION {[1..n -> VidCorpus] : n \in 0..MaxLines}

\* sys.exit(1) after printing an error
VExit(e) ==
  /\ v_pc' = "failed"
  /\ v_err' = e

\* Assembler(filename) after the file is read: stripped, non-empty lines
InitVid ==
  /\ lines \in VidSources
  /\ v_pc = "scan"
  /\ v_lines = strip_nonempty(lines)
  /\ v_idx = 0
  /\ v_labels = <<>>
  /\ v_instructions = <<>>
  /\ v_current_address = 0
  /\ asm1 = <<>>
  /\ v_ip = 0
  /\ machine_code = <<>>
  /\ v_output = <<>>
  /\ v_err = "none"
  /\ MainIdle /\ FinalIdle /\ CallIdle

\* one iteration of the constructor's loop over self.lines
VScanLine ==
  /\ v_pc = "scan"
  /\ v_idx < Len(v_lines)
  /\ LET line == v_lines[v_idx + 1]
         parts == split_once(line, ":")
         label == strip(parts[1])
     IN  IF contains(line, ":")
         THEN IF parts[1] # label
              THEN /\ VExit("InvalidLabelFormat")
                   /\ UNCHANGED <<v_idx, v_labels, v_instructions, v_current_address>>
              ELSE /\ v_labels' = bind(v_labels, label, v_current_address)
                   /\ v_idx' = v_idx + 1
                   /\ IF strip(parts[2]) # <<>>
                      THEN /\ v_instructions' = Append(v_instructions, strip(parts[2]))
                           /\ v_current_address' = v_current_address + 4
                      ELSE UNCHANGED <<v_instructions, v_current_address>>
                   /\ UNCHANGED <<v_pc, v_err>>
         ELSE /\ v_instructions' = Append(v_instructions, line)
              /\ v_current_address' = v_current_address + 4
              /\ v_idx' = v_idx + 1
              /\ UNCHANGED <<v_pc, v_labels, v_err>>
  /\ UNCHANGED <<lines, v_lines, asm1, v_ip, machine_code, v_output,
                 mainVars, finalVars, callVars>>

\* [instr.split(None, 1) for instr in instrs]
RECURSIVE split_each(_)
split_each(instrs) ==
  IF instrs = <<>> THEN <<>> ELSE <<split_ws_once(Head(instrs))>> \o split_each(Tail(instrs))

\* self.asm1.index(["beq", "zero,zero,0"]) finds an entry
halt_found(pairs) == \E i \in 1..Len(pairs) : pairs[i] = <<<<"b", "e", "q">>, <<"z", "e", "r", "o", ",", "z", "e", "r", "o", ",", "0">>>>

\* rest of the constructor: every instruction split into opcode and args, then the
\* search for the virtual halt
VParseAndCheck ==
  /\ v_pc = "scan"
  /\ v_idx = Len(v_lines)
  /\ LET pairs == split_each(v_instructions)
     IN  IF \E i \in 1..Len(pairs) : Len(pairs[i]) < 2
         THEN VExit("InvalidInstructionFormat") /\ asm1' = asm1
         ELSE /\ asm1' = pairs
              /\ IF halt_found(pairs) THEN v_pc' = "assemble" /\ v_err' = v_err
                 ELSE VExit("HaltNotFound")
  /\ UNCHANGED <<lines, v_lines, v_idx, v_labels, v_instructions, v_current_address, v_ip,
                 machine_code, v_output, mainVars, finalVars, callVars>>

\* one iteration of the loop of assemble()
VAssembleStep ==
  /\ v_pc = "assemble"
  /\ v_ip < Len(asm1)
  /\ LET assembled == assemble_instruction(asm1[v_ip + 1], 4 * v_ip, v_labels)
     IN  IF ~assembled.ok
         THEN VExit(assembled.err) /\ UNCHANGED <<v_ip, machine_code>>
         ELSE /\ machine_code' = Append(machine_code, assembled.word)
              /\ v_ip' = v_ip + 1
              /\ UNCHANGED <<v_pc, v_err>>
  /\ UNCHANGED <<lines, v_lines, v_idx, v_labels, v_instructions, v_current_address, asm1,
                 v_output, mainVars, finalVars, callVars>>

\* write_to_file, once assemble() has returned
VWriteToFile ==
  /\ v_pc = "assemble"
  /\ v_ip = Len(asm1)
  /\ v_output' = machine_code
  /\ v_pc' = "done"
  /\ UNCHANGED <<lines, v_lines, v_idx, v_labels, v_instructions, v_current_address, asm1,
                 v_ip, machine_code, v_err, mainVars, finalVars, callVars>>

NextVid == VScanLine \/ VParseAndCheck \/ VAssembleStep \/ VWriteToFile

SpecVid == InitVid /\ [][NextVid]_vars

-----------------------------------------------------------------------------
(* Single calls of Assembler.assemble_instruction *)

\* immediates of these calls: a window around 0 and the ends of the widths
NearImms == {i \in Imms : (0 - 64 <= i /\ i <= 64) \/ i \in EdgeImms}

\* a call on the pair <<opcode, args>> that spells out mnemonic, regs and imm
AICall(m, args, a, lbls, rs, i) ==
  [fn |-> "assemble_instruction", instr |-> <<m, args>>, current_address |-> a,
   labels |-> lbls, line_num |-> 0, mnemonic |-> m, regs |-> rs, imm |-> i]

\* the closed instruction set, by format
U_set == {<<"l", "u", "i">>, <<"a", "u", "i", "p", "c">>}
J_set == {<<"j", "a", "l">>}
B_set == {<<"b", "e", "q">>, <<"b", "n", "e">>, <<"b", "l", "t">>, <<"b", "g", "e">>, <<"b", "l", "t", "u">>, <<"b", "g", "e", "u">>}
S_set == {<<"s", "w">>}
I_set == {<<"l", "w">>, <<"a", "d", "d", "i">>, <<"s", "l", "t", "i", "u">>, <<"j", "a", "l", "r">>}
R_set == {<<"a", "d", "d">>, <<"s", "u", "b">>, <<"s", "l", "l">>, <<"s", "l", "t">>, <<"s", "l", "t", "u">>, <<"x", "o", "r">>, <<"s", "r", "l">>, <<"o", "r">>, <<"a", "n", "d">>}
InstructionSet == U_set \cup J_set \cup B_set \cup S_set \cup I_set \cup R_set

\* calls with well-formed operands: valid registers, the right number of operands
VidCall(c) ==
  \/ \E m \in U_set \cup J_set, rs \in RegNames, i \in NearImms :
       c = AICall(m, rs[1] \o <<",">> \o decimal(i), 0, NoLabels, rs, i)
  \/ \E m \in B_set \cup {<<"a", "d", "d", "i">>, <<"s", "l", "t", "i", "u">>, <<"j", "a", "l", "r">>}, rs \in RegNames, i \in NearImms :
       c = AICall(m, rs[1] \o <<",">> \o rs[2] \o <<",">> \o decimal(i), 0, NoLabels, rs, i)
  \/ \E m \in {<<"l", "w">>, <<"s", "w">>}, rs \in RegNames, i \in NearImms :
       c = AICall(m, rs[1] \o <<",">> \o decimal(i) \o <<"(">> \o rs[2] \o <<")">>, 0, NoLabels, rs, i)
  \/ \E m \in R_set \cup {<<"m", "u", "l">>}, rs \in RegNames :
       c = AICall(m, rs[1] \o <<",">> \o rs[2] \o <<",">> \o rs[1], 0, NoLabels, rs, 0)
  \/ \E m \in B_set \cup J_set, a \in Addrs, l \in Addrs :
       c = AICall(m, (IF m \in B_set THEN <<"a", "0", ",", "a", "1", ",", "e", "n", "d">> ELSE <<"r", "a", ",", "e", "n", "d">>), a, (<<"e", "n", "d">> :> l),
                  <<<<"a", "0">>, <<"a", "1">>>>, l - a)

InitVidEnc ==
  /\ VidCall(call)
  /\ ret = NoRet
  /\ results = <<>>
  /\ lines = <<>>
  /\ MainIdle /\ VidIdle /\ FinalIdle

ApplyAssembleInstruction ==
  /\ call.fn = "assemble_instruction"
  /\ ~ret.done
  /\ ret' = Done(assemble_instruction(call.instr, call.current_address, call.labels))
  /\ UNCHANGED <<lines, mainVars, vidVars, finalVars, call, results>>

NextVidEnc == ApplyAssembleInstruction

SpecVidEnc == InitVidEnc /\ [][NextVidEnc]_vars

-----------------------------------------------------------------------------
(* final_code.py: RiscVAssembler *)

\* _bin_repr(number, bits): sys.exit when the number does not fit
bin_repr(number, bits) ==
  LET m == IF number < 0 THEN 2 ^ bits + number ELSE number
  IN  IF m < 0 \/ m >= 2 ^ bits
      THEN [ok |-> FALSE, bin |-> <<>>]
      ELSE [ok |-> TRUE, bin |-> format_b(m, bits)]

\* reg_map of _get_register
reg_map ==
  (<<"z", "e", "r", "o">> :> 0) @@ (<<"r", "a">> :> 1) @@ (<<"s", "p">> :> 2) @@ (<<"g", "p">> :> 3) @@ (<<"t", "p">> :> 4) @@
  (<<"t", "0">> :> 5) @@ (<<"t", "1">> :> 6) @@ (<<"t", "2">> :> 7) @@ (<<"s", "0">> :> 8) @@ (<<"f", "p">> :> 8) @@
  (<<"s", "1">> :> 9) @@ (<<"a", "0">> :> 10) @@ (<<"a", "1">> :> 11) @@ (<<"a", "2">> :> 12) @@ (<<"a", "3">> :> 13) @@
  (<<"a", "4">> :> 14) @@ (<<"a", "5">> :> 15) @@ (<<"a", "6">> :> 16) @@ (<<"a", "7">> :> 17) @@ (<<"s", "2">> :> 18) @@
  (<<"s", "3">> :> 19) @@ (<<"s", "4">> :> 20) @@ (<<"s", "5">> :> 21) @@ (<<"s", "6">> :> 22) @@ (<<"s", "7">> :> 23) @@
  (<<"s", "8">> :> 24) @@ (<<"s", "9">> :> 25) @@ (<<"s", "1", "0">> :> 26) @@ (<<"s", "1", "1">> :> 27) @@ (<<"t", "3">> :> 28) @@
  (<<"t", "4">> :> 29) @@ (<<"t", "5">> :> 30) @@ (<<"t", "6">> :> 31)

get_register(reg) ==
  IF reg \in DOMAIN reg_map
  THEN [ok |-> TRUE, val |-> reg_map[reg], err |-> "none"]
  ELSE [ok |-> FALSE, val |-> 0, err |-> "UnknownRegister"]

\* _parse_immediate: a label of the table first, a number otherwise
f_parse_immediate(imm_str, bits, line_num, curr_addr, table) ==
  LET s == strip(imm_str)
      r == IF startswith(s, <<"0", "x">>) \/ startswith(s, <<"-", "0", "x">>) THEN int(s, 16) ELSE int(s, 10)
  IN  IF s \in DOMAIN table
      THEN [ok |-> TRUE, val |-> table[s] - curr_addr, err |-> "none"]
      ELSE IF r.ok THEN [ok |-> TRUE, val |-> r.val, err |-> "none"]
      ELSE [ok |-> FALSE, val |-> 0, err |-> "InvalidImmediate"]

f_R_encodings ==
  (<<"a", "d", "d">> :> [funct7 |-> <<"0", "0", "0", "0", "0", "0", "0">>, funct3 |-> <<"0", "0", "0">>, opcode |-> <<"0", "1", "1", "0", "0", "1", "1">>]) @@
  (<<"s", "u", "b">> :> [funct7 |-> <<"0", "1", "0", "0", "0", "0", "0">>, funct3 |-> <<"0", "0", "0">>, opcode |-> <<"0", "1", "1", "0", "0", "1", "1">>]) @@
  (<<"s", "l", "t">> :> [funct7 |-> <<"0", "0", "0", "0", "0", "0", "0">>, funct3 |-> <<"0", "1", "0">>, opcode |-> <<"0", "1", "1", "0", "0", "1", "1">>]) @@
  (<<"s", "r", "l">> :> [funct7 |-> <<"0", "0", "0", "0", "0", "0", "0">>, funct3 |-> <<"1", "0", "1">>, opcode |-> <<"0", "1", "1", "0", "0", "1", "1">>]) @@
  (<<"o", "r">>  :> [funct7 |-> <<"0", "0", "0", "0", "0", "0", "0">>, funct3 |-> <<"1", "1", "0">>, opcode |-> <<"0", "1", "1", "0", "0", "1", "1">>]) @@
  (<<"a", "n", "d">> :> [funct7 |-> <<"0", "0", "0", "0", "0", "0", "0">>, funct3 |-> <<"1", "1", "1">>, opcode |-> <<"0", "1", "1", "0", "0", "1", "1">>])

f_I_encodings ==
  (<<"a", "d", "d", "i">> :> [opcode |-> <<"0", "0", "1", "0", "0", "1", "1">>, funct3 |-> <<"0", "0", "0">>]) @@
  (<<"l", "w">>   :> [opcode |-> <<"0", "0", "0", "0", "0", "1", "1">>, funct3 |-> <<"0", "1", "0">>]) @@
  (<<"j", "a", "l", "r">> :> [opcode |-> <<"1", "1", "0", "0", "1", "1", "1">>, funct3 |-> <<"0", "0", "0">>])

f_S_encodings ==
  (<<"s", "w">> :> [opcode |-> <<"0", "1", "0", "0", "0", "1", "1">>, funct3 |-> <<"0", "1", "0">>])

f_B_encodings ==
  (<<"b", "e", "q">> :> [opcode |-> <<"1", "1", "0", "0", "0", "1", "1">>, funct3 |-> <<"0", "0", "0">>]) @@
  (<<"b", "n", "e">> :> [opcode |-> <<"1", "1", "0", "0", "0", "1", "1">>, funct3 |-> <<"0", "0", "1">>]) @@
  (<<"b", "l", "t">> :> [opcode |-> <<"1", "1", "0", "0", "0", "1", "1">>, funct3 |-> <<"1", "0", "0">>])

f_J_encodings ==
  (<<"j", "a", "l">> :> [opcode |-> <<"1", "1", "0", "1", "1", "1", "1">>])

f_reg(r) == bin_repr(r, 5).bin

f_encode_R(mnemonic, rd, rs1, rs2) ==
  LET e == f_R_encodings[mnemonic]
  IN  IF mnemonic \notin DOMAIN f_R_encodings THEN Fail("NoEncoding", 0)
      ELSE Word(e.funct7 \o f_reg(rs2) \o f_reg(rs1) \o e.funct3 \o f_reg(rd) \o e.opcode)

f_encode_I(mnemonic, rd, rs1, imm) ==
  LET e == f_I_encodings[mnemonic]
      b == bin_repr(imm, 12)
  IN  IF mnemonic \notin DOMAIN f_I_encodings THEN Fail("NoEncoding", 0)
      ELSE IF ~b.ok THEN Fail("ImmediateOutOfRange", 0)
      ELSE Word(b.bin \o f_reg(rs1) \o e.funct3 \o f_reg(rd) \o e.opcode)

f_encode_S(mnemonic, rs1, rs2, imm) ==
  LET e == f_S_encodings[mnemonic]
      b == bin_repr(imm, 12)
  IN  IF mnemonic \notin DOMAIN f_S_encodings THEN Fail("NoEncoding", 0)
      ELSE IF ~b.ok THEN Fail("ImmediateOutOfRange", 0)
      ELSE Word(SubSeq(b.bin, 1, 7) \o f_reg(rs2) \o f_reg(rs1) \o e.funct3
                \o SubSeq(b.bin, 8, 12) \o e.opcode)

f_encode_B(mnemonic, rs1, rs2, imm) ==
  LET e == f_B_encodings[mnemonic]
      b == bin_repr(imm \div 2, 12)
  IN  IF mnemonic \notin DOMAIN f_B_encodings THEN Fail("NoEncoding", 0)
      ELSE IF imm % 2 # 0 THEN Fail("MisalignedBranch", 0)
      ELSE IF ~b.ok THEN Fail("ImmediateOutOfRange", 0)
      ELSE Word(<<b.bin[1]>> \o SubSeq(b.bin, 2, 7) \o f_reg(rs2) \o f_reg(rs1) \o e.funct3
                \o SubSeq(b.bin, 8, 11) \o <<b.bin[12]>> \o e.opcode)

f_encode_J(mnemonic, rd, imm) ==
  LET e == f_J_encodings[mnemonic]
      b == bin_repr(imm, 20)
  IN  IF mnemonic \notin DOMAIN f_J_encodings THEN Fail("NoEncoding", 0)
      ELSE IF imm % 2 # 0 THEN Fail("MisalignedJump", 0)
      ELSE IF ~b.ok THEN Fail("ImmediateOutOfRange", 0)
      ELSE Word(<<b.bin[1]>> \o SubSeq(b.bin, 11, 20) \o <<b.bin[10]>> \o SubSeq(b.bin, 2, 9)
                \o f_reg(rd) \o e.opcode)

\* operands rd, rs1, imm (addi, jalr)
f_arith(mnemonic, ops, curr_addr, line_num, table) ==
  LET rd == get_register(ops[1])
      rs1 == get_register(ops[2])
      imm == f_parse_immediate(ops[3], 12, line_num, curr_addr, table)
  IN  IF Len(ops) # 3 THEN Fail("ArityError", line_num)
      ELSE IF ~rd.ok THEN Fail(rd.err, 0)
      ELSE IF ~rs1.ok THEN Fail(rs1.err, 0)
      ELSE IF ~imm.ok THEN Fail(imm.err, line_num)
      ELSE f_encode_I(mnemonic, rd.val, rs1.val, imm.val)

\* operands reg, imm(rs1) (lw, sw)
f_mem(mnemonic, ops, curr_addr, line_num, table) ==
  LET r == get_register(ops[1])
      m == match_offset_reg(ops[2])
      imm == f_parse_immediate(m.imm_str, 12, line_num, curr_addr, table)
      rs1 == get_register(m.rs1_str)
  IN  IF Len(ops) # 2 THEN Fail("ArityError", line_num)
      ELSE IF ~r.ok THEN Fail(r.err, 0)
      ELSE IF ~m.matched THEN Fail("InvalidOperandFormat", line_num)
      ELSE IF ~imm.ok THEN Fail(imm.err, line_num)
      ELSE IF ~rs1.ok THEN Fail(rs1.err, 0)
      ELSE IF mnemonic = <<"l", "w">> THEN f_encode_I(<<"l", "w">>, r.val, rs1.val, imm.val)
      ELSE f_encode_S(<<"s", "w">>, rs1.val, r.val, imm.val)

f_R(mnemonic, ops, line_num) ==
  LET rd == get_register(ops[1])
      rs1 == get_register(ops[2])
      rs2 == get_register(ops[3])
  IN  IF Len(ops) # 3 THEN Fail("ArityError", line_num)
      ELSE IF ~rd.ok THEN Fail(rd.err, 0)
      ELSE IF ~rs1.ok THEN Fail(rs1.err, 0)
      ELSE IF ~rs2.ok THEN Fail(rs2.err, 0)
      ELSE f_encode_R(mnemonic, rd.val, rs1.val, rs2.val)

f_B(mnemonic, ops, curr_addr, line_num, table) ==
  LET rs1 == get_register(ops[1])
      rs2 == get_register(ops[2])
      imm == f_parse_immediate(ops[3], 12, line_num, curr_addr, table)
  IN  IF Len(ops) # 3 THEN Fail("ArityError", line_num)
      ELSE IF ~rs1.ok THEN Fail(rs1.err, 0)
      ELSE IF ~rs2.ok THEN Fail(rs2.err, 0)
      ELSE IF ~imm.ok THEN Fail(imm.err, line_num)
      ELSE f_encode_B(mnemonic, rs1.val, rs2.val, imm.val)

f_J(ops, curr_addr, line_num, table) ==
  LET rd == get_register(ops[1])
      imm == f_parse_immediate(ops[2], 20, line_num, curr_addr, table)
  IN  IF Len(ops) # 2 THEN Fail("ArityError", line_num)
      ELSE IF ~rd.ok THEN Fail(rd.err, 0)
      ELSE IF ~imm.ok THEN Fail(imm.err, line_num)
      ELSE f_encode_J(<<"j", "a", "l">>, rd.val, imm.val)

translate_instruction(inst_text, curr_addr, line_num, table) ==
  LET parts == split_ws_once(inst_text)
      mnemonic == parts[1]
      operands == strip_nonempty(split_all(IF Len(parts) > 1 THEN parts[2] ELSE <<>>, {","}))
  IN  IF mnemonic \in {<<"a", "d", "d">>, <<"s", "u", "b">>, <<"s", "l", "t">>, <<"s", "r", "l">>, <<"o", "r">>, <<"a", "n", "d">>}
        THEN f_R(mnemonic, operands, line_num)
      ELSE IF mnemonic = <<"a", "d", "d", "i">> THEN f_arith(mnemonic, operands, curr_addr, line_num, table)
      ELSE IF mnemonic = <<"l", "w">> THEN f_mem(mnemonic, operands, curr_addr, line_num, table)
      ELSE IF mnemonic = <<"j", "a", "l", "r">> THEN f_arith(mnemonic, operands, curr_addr, line_num, table)
      ELSE IF mnemonic = <<"s", "w">> THEN f_mem(mnemonic, operands, curr_addr, line_num, table)
      ELSE IF mnemonic \in {<<"b", "e", "q">>, <<"b", "n", "e">>, <<"b", "l", "t">>}
        THEN f_B(mnemonic, operands, curr_addr, line_num, table)
      ELSE IF mnemonic = <<"j", "a", "l">> THEN f_J(operands, curr_addr, line_num, table)
      ELSE Fail("UnknownInstruction", line_num)

\* _verify_final_instruction: "ok", "MissingHalt", or "IndexError" when the text before
\* the first comma has no second word
verify_final_instruction(last_inst) ==
  LET parts == split_all(last_inst, {","})
      head == split_ws(parts[1])
  IN  IF ~startswith(last_inst, <<"b", "e", "q">>) THEN "MissingHalt"
      ELSE IF Len(parts) # 3 THEN "MissingHalt"
      ELSE IF Len(head) < 2 THEN "IndexError"
      ELSE IF strip(head[2]) # <<"z", "e", "r", "o">> \/ strip(parts[2]) # <<"z", "e", "r", "o">> \/ strip(parts[3]) # <<"0">>
      THEN "MissingHalt"
      ELSE "ok"

\* the lines a source file given to final_code.py is made of
FinalCorpus ==
  { <<" ", " ">>,
    <<"a", "d", "d", "i", " ", "a", "0", ",", " ", "z", "e", "r", "o", ",", " ", "5">>,
    <<"b", "e", "q", " ", "z", "e", "r", "o", ",", "z", "e", "r", "o", ",", "0">>,
    <<"b", "e", "q", "z", " ", "z", "e", "r", "o", ",", "z", "e", "r", "o", ",", "0">>,
    <<"e", "n", "d", ":">>,
    <<"e", "n", "d", ":", " ", "b", "e", "q", " ", "z", "e", "r", "o", ",", " ", "z", "e", "r", "o", ",", " ", "0">>,
    <<"j", "a", "l", " ", "r", "a", ",", "e", "n", "d">>,
    <<"0", ":", " ", "a", "d", "d", "i", " ", "a", "0", ",", "z", "e", "r", "o", ",", "1">>,
    <<"b", "e", "q", " ", "a", "0", ",", "a", "1", ",", "3">>,
    <<"b", "e", "q", ",", "z", "e", "r", "o", ",", "0">> }

FinalSources == UNION {[1..n -> FinalCorpus] : n \in 0..MaxLines}

\* sys.exit(message), or an uncaught exception
FExit(e) ==
  /\ f_pc' = "failed"
  /\ f_err' = e

\* RiscVAssembler(input_file) after the file is read: stripped, non-empty lines
InitFinal ==
  /\ lines \in FinalSources
  /\ f_pc = "parse"
  /\ source_lines = strip_nonempty(lines)
  /\ f_idx = 0
  /\ label_table = <<>>
  /\ parsed_insts = <<>>
  /\ f_addr = 0
  /\ f_ip = 0
  /\ f_machine_code = <<>>
  /\ f_output = <<>>
  /\ f_err = "none"
  /\ MainIdle /\ VidIdle /\ CallIdle

\* one iteration of the loop of _parse_source_lines
FParseLine ==
  /\ f_pc = "parse"
  /\ f_idx < Len(source_lines)
  /\ LET line == source_lines[f_idx + 1]
         parts == split_once(line, ":")
         lbl == strip(parts[1])
         remainder == parts[2]
     IN  IF contains(line, ":")
         THEN /\ label_table' = bind(label_table, lbl, f_addr)
              /\ IF strip(remainder) # <<>>
                 THEN /\ parsed_insts' = Append(parsed_insts, <<f_idx + 1, strip(remainder)>>)
                      /\ f_addr' = f_addr + 4
                 ELSE UNCHANGED <<parsed_insts, f_addr>>
         ELSE /\ parsed_insts' = Append(parsed_insts, <<f_idx + 1, line>>)
              /\ f_addr' = f_addr + 4
              /\ label_table' = label_table
  /\ f_idx' = f_idx + 1
  /\ UNCHANGED <<lines, f_pc, source_lines, f_ip, f_machine_code, f_output, f_err,
                 mainVars, vidVars, callVars>>

\* end of _parse_source_lines (no instruction: exit), then _verify_final_instruction
FVerify ==
  /\ f_pc = "parse"
  /\ f_idx = Len(source_lines)
  /\ LET v == verify_final_instruction(parsed_insts[Len(parsed_insts)][2])
     IN  IF parsed_insts = <<>> THEN FExit("EmptyProgram")
         ELSE IF v # "ok" THEN FExit(v)
         ELSE f_pc' = "run" /\ f_err' = f_err
  /\ UNCHANGED <<lines, source_lines, f_idx, label_table, parsed_insts, f_addr, f_ip,
                 f_machine_code, f_output, mainVars, vidVars, callVars>>

\* one iteration of the loop of run(); curr_addr is 4 * the number of instructions done
FRunStep ==
  /\ f_pc = "run"
  /\ f_ip < Len(parsed_insts)
  /\ LET line_num == parsed_insts[f_ip + 1][1]
         inst_text == parsed_insts[f_ip + 1][2]
         encoded_inst == translate_instruction(inst_text, 4 * f_ip, line_num, label_table)
     IN  IF ~encoded_inst.ok
         THEN FExit(encoded_inst.err) /\ UNCHANGED <<f_ip, f_machine_code>>
         ELSE /\ f_machine_code' = Append(f_machine_code, encoded_inst.word)
              /\ f_ip' = f_ip + 1
              /\ UNCHANGED <<f_pc, f_err>>
  /\ UNCHANGED <<lines, source_lines, f_idx, label_table, parsed_insts, f_addr, f_output,
                 mainVars, vidVars, callVars>>

\* end of run(): the words are written, one per line
FWrite ==
  /\ f_pc = "run"
  /\ f_ip = Len(parsed_insts)
  /\ f_output' = f_machine_code
  /\ f_pc' = "done"
  /\ UNCHANGED <<lines, source_lines, f_idx, label_table, parsed_insts, f_addr, f_ip,
                 f_machine_code, f_err, mainVars, vidVars, callVars>>

NextFinal == FParseLine \/ FVerify \/ FRunStep \/ FWrite

SpecFinal == InitFinal /\ [][NextFinal]_vars


-----------------------------------------------------------------------------
(* assembler.py and final_code.py run on the same source file *)

InitBoth ==
  /\ lines \in Sources
  /\ pc = "pass1"
  /\ idx = 0
  /\ labels = <<>>
  /\ instructions = <<>>
  /\ current_address = 0
  /\ ip = 0
  /\ binary_instructions = <<>>
  /\ output = <<>>
  /\ err = "none"
  /\ f_pc = "parse"
  /\ source_lines = strip_nonempty(lines)
  /\ f_idx = 0
  /\ label_table = <<>>
  /\ parsed_insts = <<>>
  /\ f_addr = 0
  /\ f_ip = 0
  /\ f_machine_code = <<>>
  /\ f_output = <<>>
  /\ f_err = "none"
  /\ VidIdle /\ CallIdle

NextBoth ==
  \/ Pass1Step \/ CheckProgram \/ Pass2Step \/ WriteOutput
  \/ FParseLine \/ FVerify \/ FRunStep \/ FWrite

SpecBoth == InitBoth /\ [][NextBoth]_vars
-----------------------------------------------------------------------------
(* Properties *)

\* value of a bit string read as an unsigned number
RECURSIVE bits_value(_)
bits_value(b) ==
  IF b = <<>> THEN 0
  ELSE 2 * bits_value(SubSeq(b, 1, Len(b) - 1)) + (IF b[Len(b)] = "1" THEN 1 ELSE 0)

\* value of a bit string read as a two's-complement number
signed_value(b) ==
  IF b # <<>> /\ b[1] = "1" THEN bits_value(b) - 2 ^ Len(b) ELSE bits_value(b)

\* bit i of the two's-complement form of n, as a character
bit_of(n, i) == IF ((n % 2 ^ 21) \div 2 ^ i) % 2 = 1 THEN "1" ELSE "0"

\* bits hi down to lo of n, most significant first
bits_of(n, hi, lo) == [k \in 1..(hi - lo + 1) |-> bit_of(n, hi - k + 1)]

IsWord(w) == Len(w) = 32 /\ \A i \in 1..32 : w[i] \in {"0", "1"}

HaltWord == <<"0", "0", "0", "0", "0", "0", "0", "0", "0", "0", "0", "0", "0", "0", "0", "0", "0", "0", "0", "0", "0", "0", "0", "0", "0", "1", "1", "0", "0", "0", "1", "1">>

\* the text is exactly the virtual halt: mnemonic beq, operands zero, zero, 0
IsVirtualHalt(text) ==
  LET parts == split_ws_once(text)
      ops == split_all(IF Len(parts) > 1 THEN parts[2] ELSE <<>>, {","})
  IN  /\ Len(parts) = 2
      /\ parts[1] = <<"b", "e", "q">>
      /\ Len(ops) = 3
      /\ strip(ops[1]) = <<"z", "e", "r", "o">> /\ strip(ops[2]) = <<"z", "e", "r", "o">> /\ strip(ops[3]) = <<"0">>

\* C1: a run of assembler.py main whose first pass scanned the whole source and whose
\* last instruction record is not exactly the virtual halt ends with the missing-halt
\* error, whatever the earlier lines hold.
C1_MissingHalt ==
  ( /\ pc \in {"done", "failed"}
    /\ idx = Len(lines)
    /\ instructions # <<>>
    /\ ~IsVirtualHalt(instructions[Len(instructions)].text) )
  => err = "MissingHalt"

\* C2: vidhush_bhaiya.py's constructor accepts a program only if the last instruction
\* of the stream is the virtual halt beq zero,zero,0.
C2_HaltIsLast ==
  v_pc \in {"assemble", "done"} => asm1[Len(asm1)] = <<<<"b", "e", "q">>, <<"z", "e", "r", "o", ",", "z", "e", "r", "o", ",", "0">>>>

\* source line j, among the lines pass 1 has consumed, defines the label name
DefinesLabel(j, name) ==
  LET s == strip(lines[j])
  IN  contains(s, ":") /\ strip(split_once(s, ":")[1]) = name

\* the last consumed line that defines name
LastDef(name) ==
  CHOOSE j \in 1..idx :
    DefinesLabel(j, name) /\ \A k \in (j + 1)..idx : ~DefinesLabel(k, name)

\* source line j holds a label and nothing else
LabelOnly(j) ==
  LET s == strip(lines[j])
  IN  contains(s, ":") /\ strip(split_once(s, ":")[2]) = <<>>

\* number of instruction records emitted from the lines before line j
EmittedBefore(j) == Cardinality({i \in 1..Len(instructions) : instructions[i].line_num < j})

\* C3: during and after pass 1 of assembler.py main, the i-th instruction record (from
\* 0) has address 4*i, every label is bound to 4*k with k the number of records emitted
\* before the line of its (last) definition, a label with an instruction on its line
\* has that instruction's address, and a label alone on a line has the address of the
\* next emitted instruction and does not advance the address counter.
C3_LabelAddresses ==
  pc # "idle" =>
    /\ \A i \in 1..Len(instructions) : instructions[i].addr = 4 * (i - 1)
    /\ current_address = 4 * Len(instructions)
    /\ \A j \in 1..idx : \A name \in {strip(split_once(strip(lines[j]), ":")[1])} :
         contains(strip(lines[j]), ":") => name \in DOMAIN labels
    /\ \A name \in DOMAIN labels :
         /\ \E j \in 1..idx : DefinesLabel(j, name)
         /\ labels[name] = 4 * EmittedBefore(LastDef(name))
         /\ \A i \in 1..Len(instructions) :
              /\ instructions[i].line_num = LastDef(name) => labels[name] = instructions[i].addr
              /\ ( /\ LabelOnly(LastDef(name))
                   /\ instructions[i].line_num > LastDef(name)
                   /\ \A h \in 1..(i - 1) : instructions[h].line_num < LastDef(name) )
                 => labels[name] = instructions[i].addr

\* C3 witness: pass 1 is complete, a label alone on a line is bound to a non-zero
\* address and an instruction follows it, and another label shares its line with an
\* instruction.
C3_Witness ==
  /\ pc = "pass2"
  /\ \E name \in DOMAIN labels :
       /\ LabelOnly(LastDef(name))
       /\ labels[name] > 0
       /\ \E i \in 1..Len(instructions) : instructions[i].line_num > LastDef(name)
  /\ \E name \in DOMAIN labels : ~LabelOnly(LastDef(name))

\* the mnemonics of assembler.py's I format
IFormat == {<<"a", "d", "d", "i">>, <<"l", "w">>, <<"j", "a", "l", "r">>}

\* C4: in assembler.py every I-format instruction whose resolved immediate lies outside
\* [-2048, 2047] is rejected with the out-of-range error, and no word is produced.
C4_OutOfRangeRejected ==
  ( /\ ret.done
    /\ call.fn = "process_instruction"
    /\ call.mnemonic \in IFormat
    /\ (call.imm < 0 - 2048 \/ call.imm > 2047) )
  => (~ret.ok /\ ret.err = "ImmediateOutOfRange" /\ ret.word = <<>>)

\* the immediate a J-format word carries: imm[20] imm[10:1] imm[11] imm[19:12], bit 0 = 0
JImmediate(w) ==
  signed_value(<<w[1]>> \o SubSeq(w, 13, 20) \o <<w[12]>> \o SubSeq(w, 2, 11) \o <<"0">>)

\* C5: for every jal rd, label that assembler.py main has encoded, the immediate read
\* back from the emitted word through the J-format fields is the byte distance from the
\* instruction's address to the label's address.
C5_JalDistance ==
  \A i \in 1..Len(binary_instructions) :
    LET rec == instructions[i]
        ops == operands_of(rec.text)
    IN  (mnemonic_of(rec.text) = <<"j", "a", "l">> /\ Len(ops) = 2 /\ ops[2] \in DOMAIN labels)
        => JImmediate(binary_instructions[i]) = labels[ops[2]] - rec.addr

\* the standard B-format word:
\* imm[12] imm[10:5] rs2 rs1 funct3 imm[4:1] imm[11] opcode
StandardB(mnemonic, rs1, rs2, imm) ==
  bits_of(imm, 12, 12) \o bits_of(imm, 10, 5) \o bits_of(rs2, 4, 0) \o bits_of(rs1, 4, 0)
  \o B_instructions[mnemonic].funct3 \o bits_of(imm, 4, 1) \o bits_of(imm, 11, 11)
  \o B_instructions[mnemonic].opcode

\* C6: for every branch mnemonic, register pair and even immediate in the 13-bit signed
\* range, assembler.py produces the standard B-format word.
C6_StandardBLayout ==
  ( /\ ret.done
    /\ call.fn = "process_instruction"
    /\ call.mnemonic \in DOMAIN B_instructions
    /\ call.imm % 2 = 0
    /\ 0 - 4096 <= call.imm /\ call.imm <= 4094 )
  => ( /\ ret.ok
       /\ ret.word = StandardB(call.mnemonic, registers[call.regs[1]],
                               registers[call.regs[2]], call.imm) )

\* C7: in assembler.py every B-format or J-format instruction whose resolved immediate
\* is odd is rejected with the misalignment error, before the range test and the bit
\* packing, and no word is produced for it.
C7_OddRejected ==
  ( /\ ret.done
    /\ call.fn = "process_instruction"
    /\ call.mnemonic \in DOMAIN B_instructions \cup DOMAIN J_instructions
    /\ call.imm % 2 = 1 )
  => ( /\ ~ret.ok
       /\ ret.word = <<>>
       /\ ret.err = IF call.mnemonic \in DOMAIN J_instructions
                    THEN "MisalignedJump" ELSE "MisalignedBranch" )

\* C7 witness: a branch and a jump with an odd immediate have been processed and
\* rejected; here the branch beq a0,a1,3.
C7_Witness ==
  /\ ret.done
  /\ call.instr = <<"b", "e", "q", " ", "a", "0", ",", "a", "1", ",", "3">>
  /\ ret.err = "MisalignedBranch"

\* C8: vidhush_bhaiya.py's assemble_instruction rejects every branch or jal whose
\* immediate is odd.
C8_VidOddRejected ==
  ( /\ ret.done
    /\ call.fn = "assemble_instruction"
    /\ call.mnemonic \in B_set \cup J_set
    /\ call.imm % 2 = 1 )
  => ~ret.ok

\* the immediate of a well-formed call is in the range of its format
InRange(m, imm) ==
  IF m \in U_set THEN 0 <= imm /\ imm < 2 ^ 20
  ELSE IF m \in J_set THEN 0 - 2 ^ 20 <= imm /\ imm < 2 ^ 20
  ELSE IF m \in B_set THEN 0 - 2 ^ 12 <= imm /\ imm < 2 ^ 12
  ELSE IF m \in I_set \cup S_set THEN 0 - 2 ^ 11 <= imm /\ imm < 2 ^ 11
  ELSE TRUE

\* C9: vidhush_bhaiya.py's assemble_instruction encodes every mnemonic of the fixed
\* set, given well-formed operands and an in-range immediate, into a 32-bit word that
\* ends in the mnemonic's opcode, and rejects as unknown only mnemonics outside the set.
C9_SetClosure ==
  (ret.done /\ call.fn = "assemble_instruction") =>
    /\ (call.mnemonic \in InstructionSet /\ InRange(call.mnemonic, call.imm))
       => ( /\ ret.ok
            /\ IsWord(ret.word)
            /\ SubSeq(ret.word, 26, 32) = instructions_dict[call.mnemonic].opcode )
    /\ ret.err \in {"UnknownInstruction", "InvalidInstruction"}
       => call.mnemonic \notin InstructionSet

\* C10: for every program final_code.py accepts, the last emitted word is the
\* self-branch beq zero, zero with all immediate bits zero.
C10_LastWordIsHalt ==
  f_pc = "done" => f_output[Len(f_output)] = HaltWord


\* the I-format word: imm[11:0] rs1 funct3 rd opcode
StandardI(mnemonic, rd, rs1, imm) ==
  bits_of(imm, 11, 0) \o bits_of(rs1, 4, 0) \o I_instructions[mnemonic].funct3
  \o bits_of(rd, 4, 0) \o I_instructions[mnemonic].opcode

\* C11: for every I-format instruction assembler.py accepts (addi and jalr written
\* op rd, rs1, imm, lw written lw rd, imm(rs1)), the emitted word is the bits 11..0 of
\* the two's-complement immediate, then rs1 as 5 bits, funct3, rd as 5 bits and the
\* opcode; addi a0, zero, 5 gives 000000000101 00000 000 01010 0010011.
C11_IFormatWord ==
  ( /\ ret.done
    /\ call.fn = "process_instruction"
    /\ call.mnemonic \in IFormat
    /\ ret.ok )
  => ( /\ ret.word = StandardI(call.mnemonic, registers[call.regs[1]],
                               registers[call.regs[2]], call.imm)
       /\ call.instr = <<"a", "d", "d", "i", " ", "a", "0", ",", " ", "z", "e", "r", "o", ",", " ", "5">>
          => ret.word = <<"0", "0", "0", "0", "0", "0", "0", "0", "0", "1", "0", "1">> \o <<"0", "0", "0", "0", "0">> \o <<"0", "0", "0">> \o <<"0", "1", "0", "1", "0">> \o <<"0", "0", "1", "0", "0", "1", "1">> )

\* C11 witness: the call on addi a0, zero, 5 of the example has returned a word.
C11_Witness ==
  /\ ret.done
  /\ ret.ok
  /\ call.instr = <<"a", "d", "d", "i", " ", "a", "0", ",", " ", "z", "e", "r", "o", ",", " ", "5">>
  /\ IsWord(ret.word)

\* the widths the claim names and the signed range of a width
Widths == {12, 13, 20, 21}
InSignedRange(n, b) == 0 - 2 ^ (b - 1) <= n /\ n <= 2 ^ (b - 1) - 1

\* C12: for every width b in {12, 13, 20, 21} and every n in the signed range of b,
\* to_binary(n, b) succeeds, returns exactly b characters, each 0 or 1, and the string
\* read as a b-bit two's-complement number is n.
C12_RoundTrip ==
  ( /\ ret.done
    /\ call.fn = "to_binary"
    /\ call.bits \in Widths
    /\ InSignedRange(call.n, call.bits) )
  => ( /\ ret.ok
       /\ Len(ret.word) = call.bits
       /\ \A i \in 1..Len(ret.word) : ret.word[i] \in {"0", "1"}
       /\ signed_value(ret.word) = call.n )

\* C12 witness: to_binary has returned for the most negative number of the widest
\* width, -2^20 in 21 bits.
C12_Witness ==
  /\ ret.done
  /\ call.fn = "to_binary"
  /\ call.bits = 21
  /\ call.n = 0 - 2 ^ 20
  /\ ret.ok

\* C13: a run of assembler.py main that has failed, at label validation, at the
\* empty-program or halt check or at the encoding of any instruction, has written no
\* output line; output lines exist only once the run is done, with every instruction
\* record encoded.
C13_NoPartialOutput ==
  /\ pc = "failed" => output = <<>>
  /\ output # <<>> =>
       /\ pc = "done"
       /\ err = "none"
       /\ ip = Len(instructions)
       /\ Len(binary_instructions) = Len(instructions)

\* C13 witness: the run failed at the encoding of its last instruction, after earlier
\* instructions had been encoded, and nothing was written.
C13_Witness ==
  /\ pc = "failed"
  /\ ip >= 1
  /\ ip = Len(instructions) - 1
  /\ binary_instructions # <<>>
  /\ output = <<>>

\* source line j holds a label definition
LabelLine(j) == contains(strip(lines[j]), ":")

\* the label name of source line j: the text before the first ':', stripped
NameOf(j) == strip(split_once(strip(lines[j]), ":")[1])

\* C14: every step of assembler.py main that encodes an instruction (pass 2 advancing,
\* or failing on a record) is taken when pass 1 has scanned every source line, the label
\* table holds every label of the file, and the last record has passed the halt check.
C14_EncodeAfterPass1 ==
  [][ (ip' # ip \/ binary_instructions' # binary_instructions
        \/ (pc = "pass2" /\ pc' = "failed"))
      => ( /\ idx = Len(lines)
           /\ \A j \in 1..Len(lines) : LabelLine(j) => NameOf(j) \in DOMAIN labels
           /\ instructions # <<>>
           /\ passes_halt_check(instructions[Len(instructions)].text) ) ]_vars

\* C14 witness: the first record, a jal to a label that is defined on a later line, has
\* been encoded.
C14_Witness ==
  /\ ip >= 1
  /\ mnemonic_of(instructions[1].text) = <<"j", "a", "l">>
  /\ <<"e", "n", "d">> \in DOMAIN labels
  /\ labels[<<"e", "n", "d">>] > instructions[1].addr

\* the alphabetic characters
Alphabetic ==
  {"a","b","c","d","e","f","g","h","i","j","k","l","m","n","o","p","q","r","s","t","u","v",
   "w","x","y","z","A","B","C","D","E","F","G","H","I","J","K","L","M","N","O","P","Q","R",
   "S","T","U","V","W","X","Y","Z"}

\* source line j contains ':' and its label name is empty or starts with a character
\* that is not alphabetic
BadLabelLine(j) ==
  LabelLine(j) /\ (NameOf(j) = <<>> \/ NameOf(j)[1] \notin Alphabetic)

\* C15: in assembler.py's pass 1 the first line whose label name is empty or does not
\* start with an alphabetic character is never consumed: the run can only end there,
\* failed with the invalid-label error, the name is not in the label table, and no
\* instruction is encoded and nothing written.
C15_InvalidLabel ==
  \A j \in 1..Len(lines) :
    (pc # "idle" /\ BadLabelLine(j) /\ \A k \in 1..(j - 1) : ~BadLabelLine(k)) =>
      /\ idx < j
      /\ pc \in {"pass1", "failed"}
      /\ pc = "failed" => (idx = j - 1 /\ err = "InvalidLabel")
      /\ NameOf(j) \notin DOMAIN labels
      /\ ip = 0
      /\ binary_instructions = <<>>
      /\ output = <<>>

\* C15 witness: a run that had bound a label and recorded an instruction has failed
\* with the invalid-label error at a later line.
C15_Witness ==
  /\ pc = "failed"
  /\ err = "InvalidLabel"
  /\ BadLabelLine(idx + 1)
  /\ labels # <<>>
  /\ instructions # <<>>

\* C16: for every program assembler.py accepts, the output has exactly one line per
\* instruction record, line i being the word of record i, and every line is 32
\* characters, each 0 or 1.
C16_OutputShape ==
  pc = "done" =>
    /\ Len(output) = Len(instructions)
    /\ \A i \in 1..Len(output) :
         /\ IsWord(output[i])
         /\ output[i] = process_instruction(instructions[i].text, instructions[i].addr,
                                            labels, instructions[i].line_num).word

\* C16 witness: a program of three instructions has been accepted and written, its
\* first two words different.
C16_Witness ==
  /\ pc = "done"
  /\ Len(instructions) = 3
  /\ Len(output) = 3
  /\ output[1] # output[2]

\* the label names the file defines with a valid name
DefinedNames == {NameOf(j) : j \in {k \in 1..Len(lines) : LabelLine(k) /\ ~BadLabelLine(k)}}

\* the last line of the whole file that defines name
LastDefInFile(name) ==
  CHOOSE j \in 1..Len(lines) :
    DefinesLabel(j, name) /\ \A k \in (j + 1)..Len(lines) : ~DefinesLabel(k, name)

\* the table that binds every name of the file to the address of its last definition
LastDefinitionTable == [name \in DefinedNames |-> 4 * EmittedBefore(LastDefInFile(name))]

\* C19: in assembler.py a label name defined more than once does not make pass 1 fail
\* (pass 1 fails only at a line with an invalid label name); after each consumed line
\* the table holds for every name the address of its last definition so far, and every
\* word pass 2 emits is the encoding of its record against the table of last
\* definitions in the file, also for a record that precedes the redefinition.
C19_LastDefinitionWins ==
  /\ (pc = "failed" /\ idx < Len(lines)) => (err = "InvalidLabel" /\ BadLabelLine(idx + 1))
  /\ pc # "idle" =>
       \A name \in DOMAIN labels : labels[name] = 4 * EmittedBefore(LastDef(name))
  /\ \A i \in 1..Len(binary_instructions) :
       binary_instructions[i] =
         process_instruction(instructions[i].text, instructions[i].addr,
                             LastDefinitionTable, instructions[i].line_num).word

\* C19 witness: a name is defined on two lines at different addresses, and a jal to it
\* that stands before the second definition has been encoded.
C19_Witness ==
  /\ pc \in {"pass2", "done"}
  /\ \E name \in DOMAIN labels : \E j1 \in 1..Len(lines), j2 \in 1..Len(lines) :
       /\ j1 < j2
       /\ DefinesLabel(j1, name) /\ DefinesLabel(j2, name)
       /\ EmittedBefore(j1) # EmittedBefore(j2)
       /\ \E i \in 1..Len(binary_instructions) :
            /\ instructions[i].line_num < j2
            /\ operands_of(instructions[i].text)[Len(operands_of(instructions[i].text))] = name

C18_SameAssembler ==
  (pc \in {"done", "failed"} /\ f_pc \in {"done", "failed"}) =>
    /\ pc = "done" <=> f_pc = "done"
    /\ pc = "done" => output = f_output
=============================================================================
